---- MODULE Spec2Model ----
(***************************************************************************)
(* A model of package weather (src/weather.go, the version that starts at  *)
(* line 452): the response parsers, the wind-direction and moon-phase      *)
(* classifiers and the forecast output.                                    *)
(*                                                                         *)
(* Conventions.                                                            *)
(*  - A float64 is an integer counting hundredths: 31.38 is 3138, the      *)
(*    bearing 22.5 is 2250, the fraction 0.25 is 25.  All the limits the   *)
(*    code compares with are exact in both representations.                *)
(*  - A Go string is the sequence of its characters; "" is <<>>.           *)
(*  - A Go slice is a record [isNil, elems]: the nil slice and the empty   *)
(*    slice are different values of the same length.                       *)
(*  - A byte payload is given by what json.Unmarshal makes of it: the      *)
(*    error it returns and the value it leaves in the target.              *)
(***************************************************************************)
EXTENDS Integers, Sequences, FiniteSets, TLC

VARIABLES
    pc,     \* "ready": the caller is about to call; "returned"; "panicked"
    call,   \* the function called last and its arguments
    ret     \* what that call returned and wrote to stdout

vars == <<pc, call, ret>>

---------------------------------------------------------------------------
(* Go slices                                                               *)

NilSlice == [isNil |-> TRUE, elems |-> <<>>]

EmptySlice == [isNil |-> FALSE, elems |-> <<>>]

SliceOf(s) == [isNil |-> FALSE, elems |-> s]

GoLen(sl) == Len(sl.elems)

GoAppend(sl, x) == [isNil |-> FALSE, elems |-> Append(sl.elems, x)]

---------------------------------------------------------------------------
(* Strings and time formatting                                             *)

Digit(n) == <<"0", "1", "2", "3", "4", "5", "6", "7", "8", "9">>[n + 1]

\* %02d
Pad2(n) == <<Digit((n \div 10) % 10), Digit(n % 10)>>

\* %04d
Pad4(n) == <<Digit((n \div 1000) % 10), Digit((n \div 100) % 10)>> \o Pad2(n % 100)

\* The decimal digits of n >= 0, without padding
RECURSIVE Itoa(_)
Itoa(n) == IF n < 10 THEN <<Digit(n)>> ELSE Itoa(n \div 10) \o <<Digit(n % 10)>>

\* time.Local of the machine the program runs on: the zone of the test data
Local == [name |-> <<"C", "E", "S", "T">>, offset |-> 7200]

\* Floor division and modulus, for instants before 1970 too
FloorDiv(a, b) == IF a >= 0 THEN a \div b ELSE -((-a + b - 1) \div b)

FloorMod(a, b) == a - b * FloorDiv(a, b)

\* The civil date of day number z (days since 01.01.1970), proleptic Gregorian
CivilFromDays(z) ==
    LET s   == z + 719468
        era == FloorDiv(s, 146097)
        doe == s - era * 146097
        yoe == (doe - doe \div 1460 + doe \div 36524 - doe \div 146096) \div 365
        doy == doe - (365 * yoe + yoe \div 4 - yoe \div 100)
        mp  == (5 * doy + 2) \div 153
        d   == doy - (153 * mp + 2) \div 5 + 1
        m   == IF mp < 10 THEN mp + 3 ELSE mp - 9
        y   == yoe + era * 400 + (IF m <= 2 THEN 1 ELSE 0)
    IN  [year |-> y, month |-> m, day |-> d]

\* The layouts the package formats with
LayoutCurrent == "02.01.2006 15:04 MST"

LayoutClock == "15:04"

LayoutDate == "02.01.2006"

LayoutAlert == "02.01.2006, 15:04"

\* time.Unix(sec, 0).Format(format)
GetTimestamp(sec, format) ==
    LET t     == sec + Local.offset
        c     == CivilFromDays(FloorDiv(t, 86400))
        sod   == FloorMod(t, 86400)
        date  == Pad2(c.day) \o <<".">> \o Pad2(c.month) \o <<".">> \o Pad4(c.year)
        clock == Pad2(sod \div 3600) \o <<":">> \o Pad2((sod % 3600) \div 60)
    IN  CASE format = LayoutCurrent -> date \o <<" ">> \o clock \o <<" ">> \o Local.name
          [] format = LayoutClock   -> clock
          [] format = LayoutDate    -> date
          [] format = LayoutAlert   -> date \o <<",", " ">> \o clock

---------------------------------------------------------------------------
(* The domain model and its zero values                                    *)

\* Coordinates{}
ZeroCoordinates == [Lon |-> 0, Lat |-> 0]

\* Conditions{}
ZeroConditions ==
    [Timestamp |-> <<>>, Sunrise |-> <<>>, Sunset |-> <<>>, Summary |-> <<>>,
     Temperature |-> 0, FeelsLike |-> 0, DewPoint |-> 0, Pressure |-> 0,
     Humidity |-> 0, WindSpeed |-> 0, WindGust |-> 0, WindDirection |-> 0]

\* Forecast{}
ZeroForecast == [Hourly |-> NilSlice, Daily |-> NilSlice]

\* The nil error
NilError == [isNil |-> TRUE, msg |-> "", data |-> <<>>, cause |-> ""]

\* fmt.Errorf(msg, data) and fmt.Errorf(msg + ": %w", data, cause)
Errorf(msg, data, cause) == [isNil |-> FALSE, msg |-> msg, data |-> data, cause |-> cause]

\* json.Unmarshal(data, &resp): the error, and what is left in resp
Unmarshal(data) == [err |-> data.jsonErr, resp |-> data.resp]

---------------------------------------------------------------------------
(* ParseWeatherResponse                                                    *)

MsgMalformed == "invalid API response %s: %w"

MsgNoWeather == "invalid API response %s: want at least one Weather element"

MsgFewHourly == "invalid API response %s: want at least some Hourly elements"

MsgFewDaily == "invalid API response %s: want at least Daily elements till after tomorrow"

MsgNoCoordinates == "invalid API response %s: want at least one set of coordinates"

\* The minimum lengths the parser asks for
MinWeather == 1

MinHourly == 12

MinDaily == 3

\* ValidateWeatherResponse without the check of the daily array
ValidateWithoutDailyCheck(data) ==
    LET u    == Unmarshal(data)
        resp == u.resp
    IN  IF u.err # "" THEN Errorf(MsgMalformed, data, u.err)
        ELSE IF GoLen(resp.Current.Weather) < MinWeather THEN Errorf(MsgNoWeather, data, "")
        ELSE IF GoLen(resp.Hourly) < MinHourly THEN Errorf(MsgFewHourly, data, "")
        ELSE NilError

\* ValidateWeatherResponse with the forecast arrays checked before current.weather
ValidateForecastFirst(data) ==
    LET u    == Unmarshal(data)
        resp == u.resp
    IN  IF u.err # "" THEN Errorf(MsgMalformed, data, u.err)
        ELSE IF GoLen(resp.Hourly) < MinHourly THEN Errorf(MsgFewHourly, data, "")
        ELSE IF GoLen(resp.Daily) < MinDaily THEN Errorf(MsgFewDaily, data, "")
        ELSE IF GoLen(resp.Current.Weather) < MinWeather THEN Errorf(MsgNoWeather, data, "")
        ELSE NilError

\* The checks of ParseWeatherResponse, in the order of the code: the error of the
\* first one that fails, or the nil error
ValidateWeatherResponse(data) ==
    LET u    == Unmarshal(data)
        resp == u.resp
    IN  IF u.err # "" THEN Errorf(MsgMalformed, data, u.err)
        ELSE IF GoLen(resp.Current.Weather) < MinWeather THEN Errorf(MsgNoWeather, data, "")
        ELSE IF GoLen(resp.Hourly) < MinHourly THEN Errorf(MsgFewHourly, data, "")
        ELSE IF GoLen(resp.Daily) < MinDaily THEN Errorf(MsgFewDaily, data, "")
        ELSE NilError

\* conditions := Conditions{...}
ConditionsOf(resp) ==
    [Timestamp     |-> GetTimestamp(resp.Current.DT, LayoutCurrent),
     Sunrise       |-> GetTimestamp(resp.Current.Sunrise, LayoutClock),
     Sunset        |-> GetTimestamp(resp.Current.Sunset, LayoutClock),
     Summary       |-> resp.Current.Weather.elems[1].Description,
     Temperature   |-> resp.Current.Temp,
     FeelsLike     |-> resp.Current.Feels_Like,
     DewPoint      |-> resp.Current.Dew_Point,
     Pressure      |-> resp.Current.Pressure,
     Humidity      |-> resp.Current.Humidity,
     WindSpeed     |-> resp.Current.Wind_Speed,
     WindGust      |-> resp.Current.Wind_Gust,
     WindDirection |-> resp.Current.Wind_Deg]

\* HourlyOf with the probability of rain left as the fraction
HourlyOfUnscaled(slot) ==
    [Day         |-> GetTimestamp(slot.DT, LayoutDate),
     Hour        |-> GetTimestamp(slot.DT, LayoutClock),
     Temperature |-> slot.Temp,
     RainChance  |-> slot.PoP]

\* s := ForecastHourly{...}.  PoP and RainChance both count hundredths, so that
\* slot.PoP * 100 is the product by 100 here too: the fraction 0.2 (20) gives 20.0 (2000)
HourlyOf(slot) ==
    [Day         |-> GetTimestamp(slot.DT, LayoutDate),
     Hour        |-> GetTimestamp(slot.DT, LayoutClock),
     Temperature |-> slot.Temp,
     RainChance  |-> slot.PoP * 100]

\* for _, slot := range resp.Hourly { ...; forecast.Hourly = append(forecast.Hourly, s) }
RECURSIVE AppendHourly(_, _, _)
AppendHourly(hourly, slots, i) ==
    IF i > Len(slots) THEN hourly
    ELSE AppendHourly(GoAppend(hourly, HourlyOf(slots[i])), slots, i + 1)

\* alert := Alert{...}
AlertOf(a) ==
    [Start       |-> GetTimestamp(a.Start, LayoutAlert),
     End         |-> GetTimestamp(a.End, LayoutAlert),
     Name        |-> a.Name,
     Description |-> a.Description]

\* for _, a := range slot.Alerts { ...; s.Alerts = append(s.Alerts, alert) }
RECURSIVE AppendAlerts(_, _, _)
AppendAlerts(alerts, as, i) ==
    IF i > Len(as) THEN alerts
    ELSE AppendAlerts(GoAppend(alerts, AlertOf(as[i])), as, i + 1)

\* DailyOf with Alerts left nil until the first alert is appended
DailyOfNilAlerts(slot) ==
    [Day       |-> GetTimestamp(slot.DT, LayoutDate),
     Moonrise  |-> GetTimestamp(slot.Moonrise, LayoutClock),
     Moonset   |-> GetTimestamp(slot.Moonset, LayoutClock),
     Moonphase |-> slot.Moon_Phase,
     Temp      |-> [Max     |-> slot.Temp.Max,
                    Min     |-> slot.Temp.Min,
                    Morning |-> slot.Temp.Morn,
                    Day     |-> slot.Temp.Day,
                    Evening |-> slot.Temp.Eve,
                    Night   |-> slot.Temp.Night],
     Alerts    |-> AppendAlerts(NilSlice, slot.Alerts.elems, 1)]

\* s := ForecastDaily{..., Alerts: []Alert{}} and the loop over slot.Alerts
DailyOf(slot) ==
    [Day       |-> GetTimestamp(slot.DT, LayoutDate),
     Moonrise  |-> GetTimestamp(slot.Moonrise, LayoutClock),
     Moonset   |-> GetTimestamp(slot.Moonset, LayoutClock),
     Moonphase |-> slot.Moon_Phase,
     Temp      |-> [Max     |-> slot.Temp.Max,
                    Min     |-> slot.Temp.Min,
                    Morning |-> slot.Temp.Morn,
                    Day     |-> slot.Temp.Day,
                    Evening |-> slot.Temp.Eve,
                    Night   |-> slot.Temp.Night],
     Alerts    |-> AppendAlerts(EmptySlice, slot.Alerts.elems, 1)]

\* for _, slot := range resp.Daily { ...; forecast.Daily = append(forecast.Daily, s) }
RECURSIVE AppendDaily(_, _, _)
AppendDaily(daily, slots, i) ==
    IF i > Len(slots) THEN daily
    ELSE AppendDaily(GoAppend(daily, DailyOf(slots[i])), slots, i + 1)

\* forecast := Forecast{Hourly: []ForecastHourly{}, Daily: []ForecastDaily{}} and
\* the two loops that fill it
ForecastOf(resp) ==
    [Hourly |-> AppendHourly(EmptySlice, resp.Hourly.elems, 1),
     Daily  |-> AppendDaily(EmptySlice, resp.Daily.elems, 1)]

\* ParseWeatherResponse returning, with the error, the forecast built from what was decoded
ParseWeatherResponsePartial(data) ==
    LET err == ValidateWeatherResponse(data)
    IN  IF ~err.isNil
        THEN [conditions |-> ZeroConditions, forecast |-> ForecastOf(Unmarshal(data).resp),
              err |-> err]
        ELSE [conditions |-> ConditionsOf(Unmarshal(data).resp),
              forecast   |-> ForecastOf(Unmarshal(data).resp),
              err        |-> NilError]

ParseWeatherResponse(data) ==
    LET err == ValidateWeatherResponse(data)
    IN  IF ~err.isNil
        THEN [conditions |-> ZeroConditions, forecast |-> ZeroForecast, err |-> err]
        ELSE [conditions |-> ConditionsOf(Unmarshal(data).resp),
              forecast   |-> ForecastOf(Unmarshal(data).resp),
              err        |-> NilError]

---------------------------------------------------------------------------
(* ParseGeoResponse                                                        *)

\* ParseGeoResponse taking the last set of coordinates instead of the first
ParseGeoResponseLast(data) ==
    LET u    == Unmarshal(data)
        resp == u.resp
    IN  IF u.err # "" THEN [coordinates |-> ZeroCoordinates, err |-> Errorf(MsgMalformed, data, u.err)]
        ELSE IF GoLen(resp) < 1
        THEN [coordinates |-> ZeroCoordinates, err |-> Errorf(MsgNoCoordinates, data, "")]
        ELSE [coordinates |-> [Lat |-> resp.elems[GoLen(resp)].Lat, Lon |-> resp.elems[GoLen(resp)].Lon],
              err         |-> NilError]

ParseGeoResponse(data) ==
    LET u    == Unmarshal(data)
        resp == u.resp
    IN  IF u.err # "" THEN [coordinates |-> ZeroCoordinates, err |-> Errorf(MsgMalformed, data, u.err)]
        ELSE IF GoLen(resp) < 1
        THEN [coordinates |-> ZeroCoordinates, err |-> Errorf(MsgNoCoordinates, data, "")]
        ELSE [coordinates |-> [Lat |-> resp.elems[1].Lat, Lon |-> resp.elems[1].Lon],
              err         |-> NilError]

---------------------------------------------------------------------------
(* The payloads the parsers are called with                                *)

\* Bounds of the payloads
MaxWeather == 2

MaxHourly == 13

MaxDaily == 3

MaxGeo == 2

\* All sequences over S of length at most n
RECURSIVE SeqsUpTo(_, _)
SeqsUpTo(items, n) ==
    IF n = 0 THEN {<<>>}
    ELSE LET shorter == SeqsUpTo(items, n - 1)
         IN  shorter \cup {Append(q, x) : q \in {r \in shorter : Len(r) = n - 1}, x \in items}

\* An array of the payload: absent (nil after decoding) or present
Arrays(seqs) == {NilSlice} \cup {SliceOf(q) : q \in seqs}

\* current.weather[i]
WeatherAt(i) ==
    [Description |-> IF i % 2 = 1 THEN <<"R", "e", "g", "e", "n">> ELSE <<"K", "l", "a", "r">>]

\* The current block the tests expect (TestConditionsFromParseWeatherResponse), with
\* the given weather array
CurrentWith(weather) ==
    [Weather    |-> weather,
     DT         |-> 1655479384,
     Sunrise    |-> 1655435880,
     Sunset     |-> 1655495160,
     Temp       |-> 3138,
     Feels_Like |-> 2986,
     Dew_Point  |-> 1015,
     Pressure   |-> 1021,
     Humidity   |-> 27,
     Wind_Speed |-> 230,
     Wind_Gust  |-> 332,
     Wind_Deg   |-> 23300]

CurrentInputs ==
    {CurrentWith(w) : w \in Arrays({[i \in 1..n |-> WeatherAt(i)] : n \in 0..MaxWeather})}

\* Hourly arrays: in time order from 17.06.2022 17:00, and in reverse time order
HourlyShapes ==
    {[start |-> 1655478000, step |-> 3600, temp |-> 3138, dtemp |-> -25, pops |-> <<0, 20, 100>>],
     [start |-> 1655528400, step |-> -3600, temp |-> 1200, dtemp |-> 50, pops |-> <<35, 0>>]}

HourlyAt(sh, i) ==
    [DT   |-> sh.start + sh.step * (i - 1),
     Temp |-> sh.temp + sh.dtemp * (i - 1),
     PoP  |-> sh.pops[((i - 1) % Len(sh.pops)) + 1]]

HourlyInputs ==
    Arrays({[i \in 1..n |-> HourlyAt(sh, i)] : n \in 0..MaxHourly, sh \in HourlyShapes})

AlertA ==
    [Start |-> 1655632800, End |-> 1655661600,
     Name |-> <<"W", "i", "n", "d">>, Description |-> <<"B", "o", "e", "n">>]

AlertB ==
    [Start |-> 1655647200, End |-> 1655676000,
     Name |-> <<"H", "i", "t", "z", "e">>, Description |-> <<"3", "5">>]

\* Three days: without an alerts key, with "alerts": [], and with two alerts
DailySamples ==
    {[DT |-> 1655460000, Moonrise |-> 1655418240, Moonset |-> 1655446440, Moon_Phase |-> 62,
      Temp |-> [Max |-> 3138, Min |-> 1358, Morn |-> 1553, Day |-> 2802, Eve |-> 3018, Night |-> 2039],
      Alerts |-> NilSlice],
     [DT |-> 1655546400, Moonrise |-> 1655506800, Moonset |-> 1655537400, Moon_Phase |-> 66,
      Temp |-> [Max |-> 3501, Min |-> 1702, Morn |-> 1803, Day |-> 3304, Eve |-> 3205, Night |-> 2406],
      Alerts |-> EmptySlice],
     [DT |-> 1655632800, Moonrise |-> 1655594100, Moonset |-> 1655628600, Moon_Phase |-> 75,
      Temp |-> [Max |-> 2511, Min |-> 1612, Morn |-> 1713, Day |-> 2314, Eve |-> 2215, Night |-> 1816],
      Alerts |-> SliceOf(<<AlertA, AlertB>>)]}

DailyInputs == Arrays(SeqsUpTo(DailySamples, MaxDaily))

\* What json.Unmarshal leaves in a zero WeatherResponse when it fails on the syntax
ZeroWeatherResponse ==
    [Current |-> [Weather |-> NilSlice, DT |-> 0, Sunrise |-> 0, Sunset |-> 0, Temp |-> 0,
                  Feels_Like |-> 0, Dew_Point |-> 0, Pressure |-> 0, Humidity |-> 0,
                  Wind_Speed |-> 0, Wind_Gust |-> 0, Wind_Deg |-> 0],
     Hourly |-> NilSlice,
     Daily |-> NilSlice]

WeatherResponses ==
    {[Current |-> c, Hourly |-> h, Daily |-> d] :
        c \in CurrentInputs, h \in HourlyInputs, d \in DailyInputs}

\* A payload: well-formed JSON of the expected shape; JSON with a field of the wrong
\* type, which json.Unmarshal reports after decoding all the other fields; and bytes
\* that are no JSON at all, which leave the target untouched
WeatherPayloads ==
    {[jsonErr |-> e, resp |-> r] : e \in {"", "UnmarshalTypeError"}, r \in WeatherResponses}
        \cup {[jsonErr |-> "SyntaxError", resp |-> ZeroWeatherResponse]}

GeoAt(i) == [Lat |-> 5512 + 100 * (i - 1), Lon |-> 377 - 100 * (i - 1)]

GeoSamples == {GeoAt(i) : i \in 1..3}

GeoResponses == Arrays(SeqsUpTo(GeoSamples, MaxGeo))

GeoPayloads ==
    {[jsonErr |-> e, resp |-> r] : e \in {"", "UnmarshalTypeError"}, r \in GeoResponses}
        \cup {[jsonErr |-> "SyntaxError", resp |-> NilSlice]}

---------------------------------------------------------------------------
(* The caller of the parsers                                               *)

NoCall == [fn |-> "none"]

Init ==
    /\ pc = "ready"
    /\ call = NoCall
    /\ ret = NoCall

CallParseWeatherResponse ==
    /\ pc = "ready"
    /\ \E data \in WeatherPayloads :
        /\ call' = [fn |-> "ParseWeatherResponse", data |-> data]
        /\ ret' = ParseWeatherResponse(data)
    /\ pc' = "returned"

CallParseGeoResponse ==
    /\ pc = "ready"
    /\ \E data \in GeoPayloads :
        /\ call' = [fn |-> "ParseGeoResponse", data |-> data]
        /\ ret' = ParseGeoResponse(data)
    /\ pc' = "returned"

\* The caller drops the results and is ready for the next call
Return ==
    /\ pc \in {"returned", "panicked"}
    /\ pc' = "ready"
    /\ call' = NoCall
    /\ ret' = NoCall

Next ==
    \/ CallParseWeatherResponse
    \/ CallParseGeoResponse
    \/ Return

Spec == Init /\ [][Next]_vars

---------------------------------------------------------------------------
(* The classifiers                                                         *)

\* The limits for wind directions, in hundredths of a degree
N == 0

NNO == 2250

NO == 4500

ONO == 6750

O == 9000

OSO == 11250

SO == 13500

SSO == 15750

S == 18000

SSW == 20250

SW == 22500

WSW == 24750

W == 27000

WNW == 29250

NW == 31500

NNW == 33750

\* "Neumond"
StrNeumond ==
    <<"N", "e", "u", "m", "o", "n", "d">>

\* "zunehmender Mond (vor Halbmond)"
StrZunehmendVor ==
    <<"z", "u", "n", "e", "h", "m", "e", "n", "d", "e", "r", " ", "M", "o", "n", "d",
      " ", "(", "v", "o", "r", " ", "H", "a", "l", "b", "m", "o", "n", "d", ")">>

\* "zunehmender Halbmond"
StrZunehmenderHalbmond ==
    <<"z", "u", "n", "e", "h", "m", "e", "n", "d", "e", "r", " ", "H", "a", "l", "b",
      "m", "o", "n", "d">>

\* "zunehmender Mond (nach Halbmond)"
StrZunehmendNach ==
    <<"z", "u", "n", "e", "h", "m", "e", "n", "d", "e", "r", " ", "M", "o", "n", "d",
      " ", "(", "n", "a", "c", "h", " ", "H", "a", "l", "b", "m", "o", "n", "d", ")">>

\* "Vollmond"
StrVollmond ==
    <<"V", "o", "l", "l", "m", "o", "n", "d">>

\* "abnehmender Mond (vor Halbmond)"
StrAbnehmendVor ==
    <<"a", "b", "n", "e", "h", "m", "e", "n", "d", "e", "r", " ", "M", "o", "n", "d",
      " ", "(", "v", "o", "r", " ", "H", "a", "l", "b", "m", "o", "n", "d", ")">>

\* "abnehmender Halbmond"
StrAbnehmenderHalbmond ==
    <<"a", "b", "n", "e", "h", "m", "e", "n", "d", "e", "r", " ", "H", "a", "l", "b",
      "m", "o", "n", "d">>

\* "abnehmender Mond (nach Halbmond)"
StrAbnehmendNach ==
    <<"a", "b", "n", "e", "h", "m", "e", "n", "d", "e", "r", " ", "M", "o", "n", "d",
      " ", "(", "n", "a", "c", "h", " ", "H", "a", "l", "b", "m", "o", "n", "d", ")">>

\* "UNBEKANNT"
StrUnbekannt ==
    <<"U", "N", "B", "E", "K", "A", "N", "N", "T">>

\* The compass points, clockwise from north; the i-th one has the reference bearing
\* (i - 1) * 22.5 degrees
CompassPoints ==
    <<"N", "NNO", "NO", "ONO", "O", "OSO", "SO", "SSO",
      "S", "SSW", "SW", "WSW", "W", "WNW", "NW", "NNW">>

\* The label of a compass point
Label(name) ==
    CASE name = "N" -> <<"N">>
      [] name = "NNO" -> <<"N", "N", "O">>
      [] name = "NO" -> <<"N", "O">>
      [] name = "ONO" -> <<"O", "N", "O">>
      [] name = "O" -> <<"O">>
      [] name = "OSO" -> <<"O", "S", "O">>
      [] name = "SO" -> <<"S", "O">>
      [] name = "SSO" -> <<"S", "S", "O">>
      [] name = "S" -> <<"S">>
      [] name = "SSW" -> <<"S", "S", "W">>
      [] name = "SW" -> <<"S", "W">>
      [] name = "WSW" -> <<"W", "S", "W">>
      [] name = "W" -> <<"W">>
      [] name = "WNW" -> <<"W", "N", "W">>
      [] name = "NW" -> <<"N", "W">>
      [] name = "NNW" -> <<"N", "N", "W">>

\* Direction with each sector starting at its reference bearing instead of being
\* centred on it
DirectionUncentred(d) ==
    IF d < 0 \/ d > 36000 THEN StrUnbekannt
    ELSE Label(CompassPoints[((d \div 2250) % 16) + 1])

\* Direction with the lower boundary of each sector inclusive and the upper exclusive
DirectionExclusiveUpper(d) ==
    IF d < 0 \/ d > 36000 THEN StrUnbekannt
    ELSE Label(CompassPoints[(((d + 1125) \div 2250) % 16) + 1])

\* Direction ... converts degrees into human redable wind direction
Direction(d) ==
    IF (d > NNW + (36000 - NNW) \div 2 /\ d <= 36000) \/ (d >= 0 /\ d <= NNO \div 2) THEN Label("N")
    ELSE IF d > NNO \div 2 /\ d <= NNO + (NO - NNO) \div 2 THEN Label("NNO")
    ELSE IF d > NNO + (NO - NNO) \div 2 /\ d <= NO + (ONO - NO) \div 2 THEN Label("NO")
    ELSE IF d > NO + (ONO - NO) \div 2 /\ d <= ONO + (O - ONO) \div 2 THEN Label("ONO")
    ELSE IF d > ONO + (O - ONO) \div 2 /\ d <= O + (OSO - O) \div 2 THEN Label("O")
    ELSE IF d > O + (OSO - O) \div 2 /\ d <= OSO + (SO - OSO) \div 2 THEN Label("OSO")
    ELSE IF d > OSO + (SO - OSO) \div 2 /\ d <= SO + (SSO - SO) \div 2 THEN Label("SO")
    ELSE IF d > SO + (SSO - SO) \div 2 /\ d <= SSO + (S - SSO) \div 2 THEN Label("SSO")
    ELSE IF d > SSO + (S - SSO) \div 2 /\ d <= S + (SSW - S) \div 2 THEN Label("S")
    ELSE IF d > S + (SSW - S) \div 2 /\ d <= SSW + (SW - SSW) \div 2 THEN Label("SSW")
    ELSE IF d > SSW + (SW - SSW) \div 2 /\ d <= SW + (WSW - SW) \div 2 THEN Label("SW")
    ELSE IF d > SW + (WSW - SW) \div 2 /\ d <= WSW + (W - WSW) \div 2 THEN Label("WSW")
    ELSE IF d > WSW + (W - WSW) \div 2 /\ d <= W + (WNW - W) \div 2 THEN Label("W")
    ELSE IF d > W + (WNW - W) \div 2 /\ d <= WNW + (NW - WNW) \div 2 THEN Label("WNW")
    ELSE IF d > WNW + (NW - WNW) \div 2 /\ d <= NW + (NNW - NW) \div 2 THEN Label("NW")
    ELSE IF d > NW + (NNW - NW) \div 2 /\ d <= NNW + (36000 - NNW) \div 2 THEN Label("NNW")
    ELSE StrUnbekannt

\* Description with the ranges taking their upper limits
DescriptionInclusive(p) ==
    IF p = 0 THEN StrNeumond
    ELSE IF p > 0 /\ p <= 25 THEN StrZunehmendVor
    ELSE IF p > 25 /\ p <= 50 THEN StrZunehmendNach
    ELSE IF p > 50 /\ p <= 75 THEN StrAbnehmendVor
    ELSE IF p > 75 /\ p < 100 THEN StrAbnehmendNach
    ELSE IF p = 100 THEN StrNeumond
    ELSE StrUnbekannt

\* Phase.Description, p in hundredths
Description(p) ==
    IF p = 0 THEN StrNeumond
    ELSE IF p > 0 /\ p < 25 THEN StrZunehmendVor
    ELSE IF p = 25 THEN StrZunehmenderHalbmond
    ELSE IF p > 25 /\ p < 50 THEN StrZunehmendNach
    ELSE IF p = 50 THEN StrVollmond
    ELSE IF p > 50 /\ p < 75 THEN StrAbnehmendVor
    ELSE IF p = 75 THEN StrAbnehmenderHalbmond
    ELSE IF p > 75 /\ p < 100 THEN StrAbnehmendNach
    ELSE IF p = 100 THEN StrNeumond
    ELSE StrUnbekannt

\* How far outside their domains the classifiers are called
DirectionMargin == 50

PhaseMargin == 5

DirectionInputs == (0 - DirectionMargin)..(36000 + DirectionMargin)

PhaseInputs == (0 - PhaseMargin)..(100 + PhaseMargin)

CallDirection ==
    /\ pc = "ready"
    /\ \E d \in DirectionInputs :
        /\ call' = [fn |-> "Direction", d |-> d]
        /\ ret' = [label |-> Direction(d)]
    /\ pc' = "returned"

CallDescription ==
    /\ pc = "ready"
    /\ \E p \in PhaseInputs :
        /\ call' = [fn |-> "Description", p |-> p]
        /\ ret' = [label |-> Description(p)]
    /\ pc' = "returned"

NextClassify ==
    \/ CallDirection
    \/ CallDescription
    \/ Return

SpecClassify == Init /\ [][NextClassify]_vars

---------------------------------------------------------------------------
(* The forecast output                                                     *)

\* "von "
StrVon ==
    <<"v", "o", "n", " ">>

\* " - "
StrDash ==
    <<" ", "-", " ">>

\* "um "
StrUm ==
    <<"u", "m", " ">>

\* "von 00:00 - 23:00"
StrVonNullBis23 ==
    <<"v", "o", "n", " ", "0", "0", ":", "0", "0", " ", "-", " ", "2", "3", ":", "0",
      "0">>

\* "den ganzen Tag über"
StrGanzerTag ==
    <<"d", "e", "n", " ", "g", "a", "n", "z", "e", "n", " ", "T", "a", "g", " ", "ü",
      "b", "e", "r">>

\* "Es regnet nicht."
StrEsRegnetNicht ==
    <<"E", "s", " ", "r", "e", "g", "n", "e", "t", " ", "n", "i", "c", "h", "t", ".">>

\* "Es regnet "
StrEsRegnet ==
    <<"E", "s", " ", "r", "e", "g", "n", "e", "t", " ">>

\* ", "
StrCommaSpace ==
    <<",", " ">>

\* "."
StrDot ==
    <<".">>

\* "Vorhersage für "
StrVorhersage ==
    <<"V", "o", "r", "h", "e", "r", "s", "a", "g", "e", " ", "f", "ü", "r", " ">>

\* "-----------------------------------------------------"
StrRule ==
    <<"-", "-", "-", "-", "-", "-", "-", "-", "-", "-", "-", "-", "-", "-", "-", "-",
      "-", "-", "-", "-", "-", "-", "-", "-", "-", "-", "-", "-", "-", "-", "-", "-",
      "-", "-", "-", "-", "-", "-", "-", "-", "-", "-", "-", "-", "-", "-", "-", "-",
      "-", "-", "-", "-", "-">>

\* "Temperaturen ..."
StrTemperaturen ==
    <<"T", "e", "m", "p", "e", "r", "a", "t", "u", "r", "e", "n", " ", ".", ".", ".">>

\* "... zwischen "
StrZwischen ==
    <<".", ".", ".", " ", "z", "w", "i", "s", "c", "h", "e", "n", " ">>

\* " °C und "
StrGradUnd ==
    <<" ", "°", "C", " ", "u", "n", "d", " ">>

\* " °C"
StrGrad ==
    <<" ", "°", "C">>

\* "... morgens "
StrMorgens ==
    <<".", ".", ".", " ", "m", "o", "r", "g", "e", "n", "s", " ">>

\* " °C, mittags "
StrMittags ==
    <<" ", "°", "C", ",", " ", "m", "i", "t", "t", "a", "g", "s", " ">>

\* " °C, abends "
StrAbends ==
    <<" ", "°", "C", ",", " ", "a", "b", "e", "n", "d", "s", " ">>

\* " °C und nachts "
StrNachts ==
    <<" ", "°", "C", " ", "u", "n", "d", " ", "n", "a", "c", "h", "t", "s", " ">>

\* " °C."
StrGradDot ==
    <<" ", "°", "C", ".">>

\* " von "
StrAlertVon ==
    <<" ", "v", "o", "n", " ">>

\* strings.Join(values, sep)
RECURSIVE Join(_, _)
Join(values, sep) ==
    IF Len(values) = 0 THEN <<>>
    ELSE IF Len(values) = 1 THEN values[1]
    ELSE values[1] \o sep \o Join(Tail(values), sep)

\* The description of a period with the phrase of the whole day wherever the period
\* goes from 00:00 to 23:00
PeriodTextAllDay(itsRaining, previousSlot) ==
    IF itsRaining # previousSlot
    THEN IF StrVon \o itsRaining \o StrDash \o previousSlot = StrVonNullBis23
         THEN StrGanzerTag
         ELSE StrVon \o itsRaining \o StrDash \o previousSlot
    ELSE StrUm \o itsRaining

\* The description of the period from itsRaining to previousSlot
PeriodText(itsRaining, previousSlot) ==
    IF itsRaining # previousSlot
    THEN StrVon \o itsRaining \o StrDash \o previousSlot    \* period of more than 1 hour
    ELSE StrUm \o itsRaining                                \* short period of 1 hour only

\* One iteration where closing a period leaves its start in itsRaining
ScanSlotStaleStart(st, slot, reference) ==
    IF slot.Day # reference THEN st
    ELSE IF slot.RainChance > 0
    THEN [values       |-> st.values,
          itsRaining   |-> IF st.itsRaining = <<>> THEN slot.Hour ELSE st.itsRaining,
          previousSlot |-> slot.Hour]
    ELSE IF st.previousSlot # <<>>
    THEN [values       |-> Append(st.values, PeriodText(st.itsRaining, st.previousSlot)),
          itsRaining   |-> st.itsRaining,
          previousSlot |-> <<>>]
    ELSE st

\* One iteration where a dry entry of any day closes the period
ScanSlotAnyDay(st, slot, reference) ==
    IF slot.RainChance > 0
    THEN IF slot.Day # reference THEN st
         ELSE [values       |-> st.values,
               itsRaining   |-> IF st.itsRaining = <<>> THEN slot.Hour ELSE st.itsRaining,
               previousSlot |-> slot.Hour]
    ELSE IF st.previousSlot # <<>>
    THEN [values       |-> Append(st.values, PeriodText(st.itsRaining, st.previousSlot)),
          itsRaining   |-> <<>>,
          previousSlot |-> <<>>]
    ELSE st

\* One iteration of the loop of GetRainyPeriods over f.Hourly
ScanSlot(st, slot, reference) ==
    IF slot.Day # reference THEN st
    ELSE IF slot.RainChance > 0
    THEN [values       |-> st.values,
          itsRaining   |-> IF st.itsRaining = <<>> THEN slot.Hour ELSE st.itsRaining,
          previousSlot |-> slot.Hour]
    ELSE IF st.previousSlot # <<>>
    THEN [values       |-> Append(st.values, PeriodText(st.itsRaining, st.previousSlot)),
          itsRaining   |-> <<>>,
          previousSlot |-> <<>>]
    ELSE st

RECURSIVE ScanFrom(_, _, _, _)
ScanFrom(st, hourly, i, reference) ==
    IF i > Len(hourly) THEN st
    ELSE ScanFrom(ScanSlot(st, hourly[i], reference), hourly, i + 1, reference)

\* The hanging period dropped
FlushHangingDropped(st) == st.values

\* process hanging periods till midnight
FlushHanging(st) ==
    IF st.itsRaining # <<>>
    THEN LET text == PeriodText(st.itsRaining, st.previousSlot)
         IN  Append(st.values, IF text = StrVonNullBis23 THEN StrGanzerTag ELSE text)
    ELSE st.values

\* GetRainyPeriods returning the last period only
GetRainyPeriodsLastOnly(f, offset) ==
    IF offset < 0 \/ offset >= GoLen(f.Daily) THEN [panic |-> TRUE, result |-> <<>>]
    ELSE LET reference == f.Daily.elems[offset + 1].Day
             st        == ScanFrom([values |-> <<>>, itsRaining |-> <<>>, previousSlot |-> <<>>],
                                   f.Hourly.elems, 1, reference)
             values    == FlushHanging(st)
         IN  [panic  |-> FALSE,
              result |-> IF Len(values) > 0
                         THEN StrEsRegnet \o values[Len(values)] \o StrDot
                         ELSE StrEsRegnetNicht]

\* GetRainyPeriods ... filter for rainy periods.  f.Daily[offset] panics when the
\* index is out of range.
GetRainyPeriods(f, offset) ==
    IF offset < 0 \/ offset >= GoLen(f.Daily) THEN [panic |-> TRUE, result |-> <<>>]
    ELSE LET reference == f.Daily.elems[offset + 1].Day
             st        == ScanFrom([values |-> <<>>, itsRaining |-> <<>>, previousSlot |-> <<>>],
                                   f.Hourly.elems, 1, reference)
             values    == FlushHanging(st)
         IN  [panic  |-> FALSE,
              result |-> IF Len(values) > 0
                         THEN StrEsRegnet \o Join(values, StrCommaSpace) \o StrDot
                         ELSE StrEsRegnetNicht]

\* %.0f: the nearest integer, a tie to the even one, the sign kept
FormatF0(x) ==
    LET a == IF x < 0 THEN -x ELSE x
        q == a \div 100
        r == a % 100
        n == IF r > 50 THEN q + 1
             ELSE IF r < 50 THEN q
             ELSE IF q % 2 = 0 THEN q ELSE q + 1
    IN  (IF x < 0 THEN <<"-">> ELSE <<>>) \o Itoa(n)

\* The three lines printed for each alert
RECURSIVE AlertLines(_, _)
AlertLines(alerts, i) ==
    IF i > Len(alerts) THEN <<>>
    ELSE <<alerts[i].Name \o StrAlertVon \o alerts[i].Start \o StrDash \o alerts[i].End,
           alerts[i].Description,
           <<>>>> \o AlertLines(alerts, i + 1)

\* The guard with the upper limit off by one
OffsetOutOfRangeWide(offset) == offset < 0 \/ offset > 3

\* if offset < 0 || offset > 2
OffsetOutOfRange(offset) == offset < 0 \/ offset > 2

\* PrintForecast with a guard on the length of f.Daily too
PrintForecastGuarded(f, offset) ==
    IF OffsetOutOfRange(offset) \/ offset >= GoLen(f.Daily)
    THEN [panic |-> FALSE, stdout |-> <<>>,
          err |-> Errorf("offset %d is out of range, should be 0, 1 or 2", offset, "")]
    ELSE [panic  |-> FALSE,
          err    |-> NilError,
          stdout |-> << <<>>, StrVorhersage \o f.Daily.elems[offset + 1].Day, StrRule >>]

\* PrintForecast ... output of forecast for today, tomorrow or the day after tomorrow.
\* stdout holds the lines written; a panic leaves what was written before it.
PrintForecast(f, offset) ==
    IF OffsetOutOfRange(offset)
    THEN [panic |-> FALSE, stdout |-> <<>>,
          err |-> Errorf("offset %d is out of range, should be 0, 1 or 2", offset, "")]
    ELSE IF offset >= GoLen(f.Daily)
    THEN [panic |-> TRUE, stdout |-> <<<<>>>>, err |-> NilError]
    ELSE LET day == f.Daily.elems[offset + 1]
         IN  [panic  |-> FALSE,
              err    |-> NilError,
              stdout |->
                  << <<>>,
                     StrVorhersage \o day.Day,
                     StrRule,
                     StrTemperaturen,
                     StrZwischen \o FormatF0(day.Temp.Min) \o StrGradUnd
                         \o FormatF0(day.Temp.Max) \o StrGrad,
                     StrMorgens \o FormatF0(day.Temp.Morning) \o StrMittags
                         \o FormatF0(day.Temp.Day) \o StrAbends
                         \o FormatF0(day.Temp.Evening) \o StrNachts
                         \o FormatF0(day.Temp.Night) \o StrGradDot,
                     <<>>,
                     GetRainyPeriods(f, offset).result,
                     <<>> >>
                  \o (IF GoLen(day.Alerts) > 0
                      THEN AlertLines(f.Daily.elems[1].Alerts.elems, 1)
                      ELSE <<>>)]

---------------------------------------------------------------------------
(* The forecasts and offsets the output functions are called with          *)

MaxFDaily == 3

MaxOffset == 3

\* The j-th alert of day k
FAlert(k, j) ==
    [Start       |-> GetTimestamp(1655460000 + 86400 * (k - 1) + 3600 * j, LayoutAlert),
     End         |-> GetTimestamp(1655460000 + 86400 * (k - 1) + 7200 * j, LayoutAlert),
     Name        |-> <<"W", "a", "r", "n", "u", "n", "g", " ">> \o Itoa(k) \o <<".">> \o Itoa(j),
     Description |-> <<"T", "e", "x", "t", " ">> \o Itoa(k) \o <<".">> \o Itoa(j)]

\* Day k from 17.06.2022 on, with the given alerts
FDay(k, alerts) ==
    [Day       |-> GetTimestamp(1655460000 + 86400 * (k - 1), LayoutDate),
     Moonrise  |-> GetTimestamp(1655418240 + 88200 * (k - 1), LayoutClock),
     Moonset   |-> GetTimestamp(1655446440 + 90000 * (k - 1), LayoutClock),
     Moonphase |-> 62 + 4 * (k - 1),
     Temp      |-> [Max     |-> 3138 + 112 * (k - 1),
                    Min     |-> 250 - 300 * (k - 1),
                    Morning |-> 1553 - 1203 * (k - 1),
                    Day     |-> 2802 + 48 * (k - 1),
                    Evening |-> 3018 - 68 * (k - 1),
                    Night   |-> 2039 - 2089 * (k - 1)],
     Alerts    |-> alerts]

\* The first n days, those of withAlerts with two alerts each and the others with none
FDaily(n, withAlerts) ==
    SliceOf([k \in 1..n |-> FDay(k, IF k \in withAlerts
                                    THEN SliceOf(<<FAlert(k, 1), FAlert(k, 2)>>)
                                    ELSE EmptySlice)])

FDailyInputs ==
    UNION {{FDaily(n, withAlerts) : withAlerts \in SUBSET (1..n)} : n \in 0..MaxFDaily}

\* The hourly forecasts the parser makes of the hourly arrays
FHourlyInputs == {AppendHourly(EmptySlice, h.elems, 1) : h \in HourlyInputs}

ForecastInputs ==
    {ZeroForecast} \cup {[Hourly |-> h, Daily |-> d] : h \in FHourlyInputs, d \in FDailyInputs}

\* The offsets: around the valid ones, and the one of TestPrintForcastWithWrongOffset
OffsetInputs == (-1..MaxOffset) \cup {9}

CallPrintForecast ==
    /\ pc = "ready"
    /\ \E f \in ForecastInputs, offset \in OffsetInputs :
        /\ call' = [fn |-> "PrintForecast", f |-> f, offset |-> offset]
        /\ ret' = PrintForecast(f, offset)
        /\ pc' = IF PrintForecast(f, offset).panic THEN "panicked" ELSE "returned"

CallGetRainyPeriods ==
    /\ pc = "ready"
    /\ \E f \in ForecastInputs, offset \in OffsetInputs :
        /\ call' = [fn |-> "GetRainyPeriods", f |-> f, offset |-> offset]
        /\ ret' = GetRainyPeriods(f, offset)
        /\ pc' = IF GetRainyPeriods(f, offset).panic THEN "panicked" ELSE "returned"

NextForecast ==
    \/ CallPrintForecast
    \/ CallGetRainyPeriods
    \/ Return

SpecForecast == Init /\ [][NextForecast]_vars

---------------------------------------------------------------------------
(* The claims                                                              *)

Returned(fn) == pc = "returned" /\ call.fn = fn

\* The decoded payload of the call
Resp == call.data.resp

\* C1: ParseWeatherResponse returns the nil error if and only if the payload
\* deserializes, current.weather has at least 1 entry, hourly at least 12 and daily
\* at least 3; in every other case it returns a non-nil error.
C1_SuccessIffComplete ==
    Returned("ParseWeatherResponse") =>
        (ret.err.isNil <=>
            /\ call.data.jsonErr = ""
            /\ Len(Resp.Current.Weather.elems) >= 1
            /\ Len(Resp.Hourly.elems) >= 12
            /\ Len(Resp.Daily.elems) >= 3)

\* C1 witness: a payload with exactly 1 weather entry, 12 hourly and 3 daily entries
\* was parsed without error.
C1_Witness ==
    /\ Returned("ParseWeatherResponse")
    /\ ret.err.isNil
    /\ Len(Resp.Current.Weather.elems) = 1
    /\ Len(Resp.Hourly.elems) = 12
    /\ Len(Resp.Daily.elems) = 3

\* C2: the checks are applied in the order malformed, missing current weather,
\* insufficient forecast data, and only the first failing one is reported: a payload
\* with an empty current.weather and too few hourly or daily entries is reported as
\* missing current weather.
C2_FirstFailureReported ==
    Returned("ParseWeatherResponse") =>
        /\ call.data.jsonErr # "" => ret.err.msg = MsgMalformed
        /\ (call.data.jsonErr = "" /\ Len(Resp.Current.Weather.elems) < 1)
              => ret.err.msg = MsgNoWeather
        /\ (/\ call.data.jsonErr = ""
            /\ Len(Resp.Current.Weather.elems) >= 1
            /\ (Len(Resp.Hourly.elems) < 12 \/ Len(Resp.Daily.elems) < 3))
              => ret.err.msg \in {MsgFewHourly, MsgFewDaily}

\* C2 witness: a well-formed payload with no weather entry, too few hourly and too
\* few daily entries was reported as missing current weather.
C2_Witness ==
    /\ Returned("ParseWeatherResponse")
    /\ call.data.jsonErr = ""
    /\ Len(Resp.Current.Weather.elems) = 0
    /\ Len(Resp.Hourly.elems) \in 1..11
    /\ Len(Resp.Daily.elems) \in 1..2
    /\ ret.err.msg = MsgNoWeather

\* C3: whenever a parser returns an error, what it returns beside the error is the
\* zero value: Conditions{} and Forecast{} for ParseWeatherResponse, Coordinates{}
\* for ParseGeoResponse.
C3_ZeroValuesOnError ==
    /\ (Returned("ParseWeatherResponse") /\ ~ret.err.isNil) =>
          /\ ret.conditions = ZeroConditions
          /\ Len(ret.forecast.Hourly.elems) = 0
          /\ Len(ret.forecast.Daily.elems) = 0
          /\ ret.forecast = ZeroForecast
    /\ (Returned("ParseGeoResponse") /\ ~ret.err.isNil) =>
          ret.coordinates = ZeroCoordinates

\* C3 witness: an error was returned for a payload from which a forecast could have
\* been built (hourly and daily entries were decoded).
C3_Witness ==
    /\ Returned("ParseWeatherResponse")
    /\ ~ret.err.isNil
    /\ Len(Resp.Current.Weather.elems) >= 1
    /\ Len(Resp.Hourly.elems) >= 12
    /\ Len(Resp.Daily.elems) = 2

\* C4: ParseGeoResponse fails on an empty array; on a non-empty array it returns
\* the lat/lon of the first element, whatever follows it.
C4_FirstCoordinates ==
    (Returned("ParseGeoResponse") /\ call.data.jsonErr = "") =>
        IF Len(Resp.elems) = 0
        THEN ~ret.err.isNil
        ELSE /\ ret.err.isNil
             /\ ret.coordinates = [Lat |-> Resp.elems[1].Lat, Lon |-> Resp.elems[1].Lon]
             /\ \A other \in GeoPayloads :
                   (/\ other.jsonErr = ""
                    /\ Len(other.resp.elems) > 0
                    /\ other.resp.elems[1] = Resp.elems[1])
                      => ParseGeoResponse(other).coordinates = ret.coordinates

\* C4 witness: an array of two different sets of coordinates was parsed.
C4_Witness ==
    /\ Returned("ParseGeoResponse")
    /\ ret.err.isNil
    /\ Len(Resp.elems) = 2
    /\ Resp.elems[1] # Resp.elems[2]

\* C5: on success Forecast.Hourly and Forecast.Daily are as long as the upstream
\* arrays and entry i is made from upstream entry i alone; an hourly entry has the
\* upstream temp as Temperature and the upstream pop times 100 as RainChance.
C5_EntriesInUpstreamOrder ==
    (Returned("ParseWeatherResponse") /\ ret.err.isNil) =>
        /\ Len(ret.forecast.Hourly.elems) = Len(Resp.Hourly.elems)
        /\ Len(ret.forecast.Daily.elems) = Len(Resp.Daily.elems)
        /\ \A i \in 1..Len(Resp.Hourly.elems) :
              /\ ret.forecast.Hourly.elems[i].Temperature = Resp.Hourly.elems[i].Temp
              /\ ret.forecast.Hourly.elems[i].RainChance = Resp.Hourly.elems[i].PoP * 100
              /\ ret.forecast.Hourly.elems[i].Day = GetTimestamp(Resp.Hourly.elems[i].DT, LayoutDate)
              /\ ret.forecast.Hourly.elems[i].Hour = GetTimestamp(Resp.Hourly.elems[i].DT, LayoutClock)
        /\ \A i \in 1..Len(Resp.Daily.elems) :
              /\ ret.forecast.Daily.elems[i].Day = GetTimestamp(Resp.Daily.elems[i].DT, LayoutDate)
              /\ ret.forecast.Daily.elems[i].Moonphase = Resp.Daily.elems[i].Moon_Phase
              /\ ret.forecast.Daily.elems[i].Temp.Max = Resp.Daily.elems[i].Temp.Max

\* C5 witness: an hourly array in reverse time order with a rainy entry, and a daily
\* array that repeats a day, were parsed.
C5_Witness ==
    /\ Returned("ParseWeatherResponse")
    /\ ret.err.isNil
    /\ Resp.Hourly.elems[1].DT > Resp.Hourly.elems[2].DT
    /\ \E i \in 1..Len(Resp.Hourly.elems) : Resp.Hourly.elems[i].PoP > 0
    /\ Resp.Daily.elems[1].DT > Resp.Daily.elems[2].DT
    /\ Resp.Daily.elems[1] = Resp.Daily.elems[3]

\* C6: on success every ForecastDaily.Alerts is a non-nil sequence with the upstream
\* alerts of that day in their order; a day whose upstream alerts are absent or
\* empty has the empty sequence.
C6_AlertsNeverNil ==
    (Returned("ParseWeatherResponse") /\ ret.err.isNil) =>
        \A i \in 1..Len(ret.forecast.Daily.elems) :
            LET alerts   == ret.forecast.Daily.elems[i].Alerts
                upstream == Resp.Daily.elems[i].Alerts
            IN  /\ ~alerts.isNil
                /\ Len(alerts.elems) = Len(upstream.elems)
                /\ \A j \in 1..Len(upstream.elems) :
                      /\ alerts.elems[j].Name = upstream.elems[j].Name
                      /\ alerts.elems[j].Description = upstream.elems[j].Description
                      /\ alerts.elems[j].Start = GetTimestamp(upstream.elems[j].Start, LayoutAlert)
                      /\ alerts.elems[j].End = GetTimestamp(upstream.elems[j].End, LayoutAlert)

\* C6 witness: a payload with a day without alerts key, a day with an empty alerts
\* array and a day with two alerts was parsed.
C6_Witness ==
    /\ Returned("ParseWeatherResponse")
    /\ ret.err.isNil
    /\ Resp.Daily.elems[1].Alerts = NilSlice
    /\ Resp.Daily.elems[2].Alerts = EmptySlice
    /\ Len(Resp.Daily.elems[3].Alerts.elems) = 2
    /\ ret.forecast.Daily.elems[1].Alerts = EmptySlice

\* The distance on the circle between the bearings a and b, in hundredths of a degree
CircularDistance(a, b) ==
    LET diff == IF a >= b THEN (a - b) % 36000 ELSE (b - a) % 36000
    IN  IF diff <= 18000 THEN diff ELSE 36000 - diff

\* C7: for 0 <= d <= 360 Direction returns one of the 16 compass labels, that of a
\* reference bearing (a multiple of 22.5, 360 being 0) within 11.25 degrees of d;
\* Direction(0) = Direction(360) = "N"; for d < 0 or d > 360 it returns "UNBEKANNT".
C7_NearestCompassPoint ==
    Returned("Direction") =>
        /\ (call.d >= 0 /\ call.d <= 36000) =>
              \E i \in 1..16 :
                  /\ ret.label = Label(CompassPoints[i])
                  /\ CircularDistance(call.d, (i - 1) * 2250) <= 1125
        /\ call.d \in {0, 36000} => ret.label = <<"N">>
        /\ (call.d < 0 \/ call.d > 36000) => ret.label = StrUnbekannt

\* C7 witness: the bearing 190 of TestDirection was classified as "S".
C7_Witness ==
    /\ Returned("Direction")
    /\ call.d = 19000
    /\ ret.label = <<"S">>

\* C8 as claimed: a bearing equal to the upper boundary of a sector other than N
\* (reference bearing + 11.25) is classified into the next sector clockwise.
C8_UpperBoundaryExclusive ==
    Returned("Direction") =>
        \A i \in 2..16 :
            call.d = (i - 1) * 2250 + 1125 => ret.label = Label(CompassPoints[(i % 16) + 1])

\* C8 as amended: the upper boundary is inclusive: a bearing equal to the upper
\* boundary of a sector other than N (reference bearing + 11.25, 33.75 for NNO) is
\* classified into that sector, not into the next one clockwise.
C8_UpperBoundaryInclusive ==
    Returned("Direction") =>
        \A i \in 2..16 :
            call.d = (i - 1) * 2250 + 1125 =>
                /\ ret.label = Label(CompassPoints[i])
                /\ ret.label # Label(CompassPoints[(i % 16) + 1])

\* C8 witness: the bearing 33.75 was classified as "NNO".
C8_Witness ==
    /\ Returned("Direction")
    /\ call.d = 3375
    /\ ret.label = <<"N", "N", "O">>

\* C9: Description returns new moon for 0 and 1, first quarter for 0.25, full moon
\* for 0.5, last quarter for 0.75, the waxing-crescent, waxing-gibbous,
\* waning-gibbous and waning-crescent labels strictly inside (0, 0.25), (0.25, 0.5),
\* (0.5, 0.75) and (0.75, 1), and "UNBEKANNT" for p < 0 or p > 1.
C9_PhaseNames ==
    Returned("Description") =>
        /\ call.p \in {0, 100} => ret.label = StrNeumond
        /\ call.p = 25 => ret.label = StrZunehmenderHalbmond
        /\ call.p = 50 => ret.label = StrVollmond
        /\ call.p = 75 => ret.label = StrAbnehmenderHalbmond
        /\ (call.p > 0 /\ call.p < 25) => ret.label = StrZunehmendVor
        /\ (call.p > 25 /\ call.p < 50) => ret.label = StrZunehmendNach
        /\ (call.p > 50 /\ call.p < 75) => ret.label = StrAbnehmendVor
        /\ (call.p > 75 /\ call.p < 100) => ret.label = StrAbnehmendNach
        /\ (call.p < 0 \/ call.p > 100) => ret.label = StrUnbekannt
        /\ (call.p >= 0 /\ call.p <= 100) =>
              ret.label \in {StrNeumond, StrZunehmendVor, StrZunehmenderHalbmond,
                             StrZunehmendNach, StrVollmond, StrAbnehmendVor,
                             StrAbnehmenderHalbmond, StrAbnehmendNach}

\* C9 witness: the fraction 0.25 was named first quarter.
C9_Witness ==
    /\ Returned("Description")
    /\ call.p = 25
    /\ ret.label = StrZunehmenderHalbmond

\* C10: PrintForecast returns an error for every offset < 0 or > 2 on any forecast,
\* the empty one included, and writes nothing; for an offset in {0, 1, 2} on a
\* forecast with at least 3 daily entries it returns nil.
C10_OffsetGuard ==
    (call.fn = "PrintForecast" /\ pc \in {"returned", "panicked"}) =>
        /\ (call.offset < 0 \/ call.offset > 2) =>
              /\ pc = "returned"
              /\ ~ret.err.isNil
              /\ ret.stdout = <<>>
              /\ \A g \in ForecastInputs : PrintForecast(g, call.offset) = ret
        /\ (call.offset \in {0, 1, 2} /\ Len(call.f.Daily.elems) >= 3) =>
              /\ pc = "returned"
              /\ ret.err.isNil

\* C10 witness: PrintForecast(Forecast{}, 9), the call of the test, returned an error.
C10_Witness ==
    /\ Returned("PrintForecast")
    /\ call.f = ZeroForecast
    /\ call.offset = 9
    /\ ~ret.err.isNil

\* C11: for an offset in {0, 1, 2} the alerts PrintForecast writes are those of
\* f.Daily[offset], in their order, as the day label it writes is that of
\* f.Daily[offset]; nothing of another daily entry is written.  (The alerts follow
\* the nine lines of the heading, the temperatures and the rain.)
C11_AlertsOfSelectedDay ==
    (Returned("PrintForecast") /\ call.offset \in {0, 1, 2}) =>
        /\ ret.stdout[2] = StrVorhersage \o call.f.Daily.elems[call.offset + 1].Day
        /\ SubSeq(ret.stdout, 10, Len(ret.stdout))
              = AlertLines(call.f.Daily.elems[call.offset + 1].Alerts.elems, 1)

---------------------------------------------------------------------------
(* PrintAlerts                                                             *)

\* "Warnungen vom "
StrWarnungenVom ==
    <<"W", "a", "r", "n", "u", "n", "g", "e", "n", " ", "v", "o", "m", " ">>

\* "Es liegen keine Warnungen vor."
StrKeineWarnungen ==
    <<"E", "s", " ", "l", "i", "e", "g", "e", "n", " ", "k", "e", "i", "n", "e", " ",
      "W", "a", "r", "n", "u", "n", "g", "e", "n", " ", "v", "o", "r", ".">>

\* PrintAlerts writing the alerts of every day that has some
PrintAlertsEveryDay(f) ==
    IF GoLen(f.Daily) < 3
    THEN [panic |-> TRUE, stdout |-> <<<<>>>>]
    ELSE LET today         == f.Daily.elems[1]
             tomorrow      == f.Daily.elems[2]
             afterTomorrow == f.Daily.elems[3]
         IN  [panic  |-> FALSE,
              stdout |->
                  << <<>>,
                     StrWarnungenVom \o today.Day \o StrDash \o afterTomorrow.Day,
                     StrRule >>
                  \o (IF GoLen(today.Alerts) + GoLen(tomorrow.Alerts) + GoLen(afterTomorrow.Alerts) > 0
                      THEN AlertLines(today.Alerts.elems, 1) \o AlertLines(tomorrow.Alerts.elems, 1)
                               \o AlertLines(afterTomorrow.Alerts.elems, 1)
                      ELSE <<StrKeineWarnungen>>)
                  \o << <<>> >>]

\* PrintAlerts ... alerts for today and the next days.  f.Daily[0] and f.Daily[2]
\* panic when the forecast has fewer than 3 daily entries, after the first line.
PrintAlerts(f) ==
    IF GoLen(f.Daily) < 3
    THEN [panic |-> TRUE, stdout |-> <<<<>>>>]
    ELSE LET today         == f.Daily.elems[1]
             tomorrow      == f.Daily.elems[2]
             afterTomorrow == f.Daily.elems[3]
         IN  [panic  |-> FALSE,
              stdout |->
                  << <<>>,
                     StrWarnungenVom \o today.Day \o StrDash \o afterTomorrow.Day,
                     StrRule >>
                  \o (IF GoLen(today.Alerts) > 0 THEN AlertLines(today.Alerts.elems, 1)
                      ELSE IF GoLen(tomorrow.Alerts) > 0 THEN AlertLines(tomorrow.Alerts.elems, 1)
                      ELSE IF GoLen(afterTomorrow.Alerts) > 0
                      THEN AlertLines(afterTomorrow.Alerts.elems, 1)
                      ELSE <<StrKeineWarnungen>>)
                  \o << <<>> >>]

CallPrintAlerts ==
    /\ pc = "ready"
    /\ \E f \in ForecastInputs :
        /\ call' = [fn |-> "PrintAlerts", f |-> f]
        /\ ret' = PrintAlerts(f)
        /\ pc' = IF PrintAlerts(f).panic THEN "panicked" ELSE "returned"

NextAlerts ==
    \/ CallPrintAlerts
    \/ Return

SpecAlerts == Init /\ [][NextAlerts]_vars

\* The offsets in {0, 1, 2} of the days of f that have alerts
DaysWithAlerts(f) == {k \in 0..2 : Len(f.Daily.elems[k + 1].Alerts.elems) > 0}

\* The least element of a non-empty set of numbers
Least(set) == CHOOSE k \in set : \A other \in set : k <= other

\* C12: on a forecast with at least 3 daily entries PrintAlerts writes the alerts of
\* exactly one day, the one with the lowest offset in {0, 1, 2} whose alerts are not
\* empty, and none of a later day; if all three are empty it writes that there are
\* no alerts.
C12_FirstDayWithAlerts ==
    (call.fn = "PrintAlerts" /\ pc \in {"returned", "panicked"}
        /\ Len(call.f.Daily.elems) >= 3) =>
        /\ pc = "returned"
        /\ SubSeq(ret.stdout, 4, Len(ret.stdout) - 1) =
              IF DaysWithAlerts(call.f) = {}
              THEN <<StrKeineWarnungen>>
              ELSE AlertLines(call.f.Daily.elems[Least(DaysWithAlerts(call.f)) + 1].Alerts.elems, 1)

\* C12 witness: the alerts were written of a forecast whose first day has none and
\* whose second and third day both have some.
C12_Witness ==
    /\ Returned("PrintAlerts")
    /\ Len(call.f.Daily.elems) >= 3
    /\ DaysWithAlerts(call.f) = {1, 2}
    /\ Len(ret.stdout) = 10

---------------------------------------------------------------------------
(* GetRainyPeriods on hourly forecasts in any order                        *)

\* The longest hourly forecast
MaxSlots == 4

\* The days of the daily forecast: 17.06.2022 and the day after
RainDays == {1, 2}

\* The hours of a day the slots are taken of: the first and the last
RainHours == {0, 23}

\* The slot the parser makes of the sample of hour h of day k (17.06.2022 is day 1),
\* with the given probability of precipitation
RainSlot(k, h, pop) ==
    HourlyOf([DT |-> 1655416800 + 86400 * (k - 1) + 3600 * h, Temp |-> 2000, PoP |-> pop])

RainSlots == {RainSlot(k, h, pop) : k \in RainDays, h \in RainHours, pop \in {0, 20}}

\* The parser keeps the order of the payload: the slots come in any order, and a
\* label may come twice
RainForecasts ==
    {[Hourly |-> SliceOf(h), Daily |-> FDaily(Cardinality(RainDays), {})] : h \in SeqsUpTo(RainSlots, MaxSlots)}

CallGetRainyPeriodsOfDay ==
    /\ pc = "ready"
    /\ \E f \in RainForecasts, offset \in {k - 1 : k \in RainDays} :
        /\ call' = [fn |-> "GetRainyPeriods", f |-> f, offset |-> offset]
        /\ ret' = GetRainyPeriods(f, offset)
        /\ pc' = IF GetRainyPeriods(f, offset).panic THEN "panicked" ELSE "returned"

NextRain ==
    \/ CallGetRainyPeriodsOfDay
    \/ Return

SpecRain == Init /\ [][NextRain]_vars

\* The hourly entries of the selected day, in their order
SelectedDay(f, offset) ==
    LET OfDay(slot) == slot.Day = f.Daily.elems[offset + 1].Day
    IN  SelectSeq(f.Hourly.elems, OfDay)

\* The end of the maximal rainy run of sel that starts at i
RunEnd(sel, i) ==
    CHOOSE j \in i..Len(sel) :
        /\ \A m \in i..j : sel[m].RainChance > 0
        /\ j = Len(sel) \/ sel[j + 1].RainChance <= 0

\* The maximal rainy runs of sel from i on, in their order: the labels of the first
\* and of the last sample, the number of samples, and whether the run ends with sel
RECURSIVE RunsFrom(_, _)
RunsFrom(sel, i) ==
    IF i > Len(sel) THEN <<>>
    ELSE IF sel[i].RainChance > 0
    THEN <<[first |-> sel[i].Hour,
            last  |-> sel[RunEnd(sel, i)].Hour,
            count |-> RunEnd(sel, i) - i + 1,
            open  |-> RunEnd(sel, i) = Len(sel)]>> \o RunsFrom(sel, RunEnd(sel, i) + 1)
    ELSE RunsFrom(sel, i + 1)

\* The maximal rainy runs of the selected day of the call
CallRuns == RunsFrom(SelectedDay(call.f, call.offset), 1)

RangeForm(run) == StrVon \o run.first \o StrDash \o run.last

SingleForm(run) == StrUm \o run.first

\* The sentence of the descriptions
Sentence(descs) ==
    IF Len(descs) = 0 THEN StrEsRegnetNicht
    ELSE StrEsRegnet \o Join(descs, StrCommaSpace) \o StrDot

\* result is the sentence of one description per run, each of the forms of its run
Describes(result, runs, Forms(_)) ==
    IF Len(runs) = 0 THEN result = StrEsRegnetNicht
    ELSE \E descs \in [1..Len(runs) -> UNION {Forms(runs[k]) : k \in 1..Len(runs)}] :
            /\ \A k \in 1..Len(runs) : descs[k] \in Forms(runs[k])
            /\ result = Sentence(descs)

\* Any of the three forms
AnyForm(run) == {RangeForm(run), SingleForm(run), StrGanzerTag}

\* C13: GetRainyPeriods returns one description per maximal rainy run of the selected
\* day, in the order of the runs, joined with ", " inside "Es regnet ... ."; it
\* returns "Es regnet nicht." exactly if no entry of the selected day has
\* RainChance > 0, also when the day has no entry.
C13_OneDescriptionPerRun ==
    Returned("GetRainyPeriods") =>
        /\ Describes(ret.result, CallRuns, AnyForm)
        /\ ret.result = StrEsRegnetNicht
              <=> \A i \in 1..Len(SelectedDay(call.f, call.offset)) :
                      SelectedDay(call.f, call.offset)[i].RainChance <= 0

\* C13 witness: two runs of the selected day were described, the first of one sample
\* and the second of two samples of different hours.
C13_Witness ==
    /\ Returned("GetRainyPeriods")
    /\ Len(CallRuns) = 2
    /\ CallRuns[1].count = 1
    /\ CallRuns[2].count = 2
    /\ ret.result = StrEsRegnet \o SingleForm(CallRuns[1]) \o StrCommaSpace
                        \o RangeForm(CallRuns[2]) \o StrDot

\* The form of a run by the number of its samples; the phrase of the whole day
\* stands for the range from 00:00 to 23:00
FormBySampleCount(run) ==
    IF run.count > 1
    THEN {RangeForm(run)} \cup (IF RangeForm(run) = StrVonNullBis23 THEN {StrGanzerTag} ELSE {})
    ELSE {SingleForm(run)}

\* C14: every rainy run is described by "von <firstHour> - <lastHour>" exactly if it
\* has more than one hourly sample and by "um <hour>" exactly if it has one sample,
\* also where two consecutive samples of the day carry the same hour label.
C14_FormBySampleCount ==
    Returned("GetRainyPeriods") => Describes(ret.result, CallRuns, FormBySampleCount)

\* The phrase of the whole day for every run from 00:00 to 23:00
FormAllDayAlways(run) ==
    IF RangeForm(run) = StrVonNullBis23 THEN {StrGanzerTag}
    ELSE {RangeForm(run), SingleForm(run)}

\* The phrase of the whole day for the run from 00:00 to 23:00 that the scan ends in
FormAllDayHanging(run) ==
    IF RangeForm(run) = StrVonNullBis23
    THEN IF run.open THEN {StrGanzerTag} ELSE {RangeForm(run)}
    ELSE {RangeForm(run), SingleForm(run)}

\* C15 as stated: every rainy run whose first hour is 00:00 and whose last hour is
\* 23:00 is described by "den ganzen Tag über" and never by "von 00:00 - 23:00",
\* whether a dry sample of the day or the end of the scan closes it.
C15_AllDayAlways ==
    Returned("GetRainyPeriods") => Describes(ret.result, CallRuns, FormAllDayAlways)

\* C15 amended: a rainy run from 00:00 to 23:00 is described by "den ganzen Tag über"
\* if the scan ends in it, and by "von 00:00 - 23:00" if a dry sample of the day
\* closes it; no other run is described by "den ganzen Tag über".
C15_AllDayOnlyHanging ==
    Returned("GetRainyPeriods") => Describes(ret.result, CallRuns, FormAllDayHanging)

\* C15 witness: the one run of the day, from 00:00 to 23:00 and closed by a dry
\* sample of the day, was described by the range.
C15_Witness ==
    /\ Returned("GetRainyPeriods")
    /\ Len(CallRuns) = 1
    /\ ~CallRuns[1].open
    /\ ret.result = StrEsRegnet \o StrVonNullBis23 \o StrDot

---------------------------------------------------------------------------
(* The client: GetWeather and GetCoordinates                               *)

\* "https://api.openweathermap.org"
StrBaseURL ==
    <<"h", "t", "t", "p", "s", ":", "/", "/", "a", "p", "i", ".", "o", "p", "e", "n",
      "w", "e", "a", "t", "h", "e", "r", "m", "a", "p", ".", "o", "r", "g">>

\* "/data/3.0/onecall?lat="
StrOneCallLat ==
    <<"/", "d", "a", "t", "a", "/", "3", ".", "0", "/", "o", "n", "e", "c", "a", "l",
      "l", "?", "l", "a", "t", "=">>

\* "&lon="
StrLon ==
    <<"&", "l", "o", "n", "=">>

\* "&units=metric&lang=de&appid="
StrUnitsLangAppid ==
    <<"&", "u", "n", "i", "t", "s", "=", "m", "e", "t", "r", "i", "c", "&", "l", "a",
      "n", "g", "=", "d", "e", "&", "a", "p", "p", "i", "d", "=">>

\* "/geo/1.0/direct?q="
StrGeoDirectQ ==
    <<"/", "g", "e", "o", "/", "1", ".", "0", "/", "d", "i", "r", "e", "c", "t", "?",
      "q", "=">>

\* "&limit=1&appid="
StrLimitAppid ==
    <<"&", "l", "i", "m", "i", "t", "=", "1", "&", "a", "p", "p", "i", "d", "=">>

MsgStatus == "unexptected response status %q"

\* http.StatusOK
StatusOK == 200

\* NewClient(apiKey), without the HTTP client and its timeout
NewClient(apiKey) == [APIKey |-> apiKey, BaseURL |-> StrBaseURL]

\* %g of a number of hundredths: the shortest decimal, no trailing zeros
FormatG(x) ==
    LET a    == IF x < 0 THEN -x ELSE x
        sign == IF x < 0 THEN <<"-">> ELSE <<>>
        frac == IF a % 100 = 0 THEN <<>>
                ELSE IF a % 10 = 0 THEN <<".", Digit((a \div 10) % 10)>>
                ELSE <<".">> \o Pad2(a % 100)
    IN  sign \o Itoa(a \div 100) \o frac

FormatWeatherURL(c, coordinates) ==
    c.BaseURL \o StrOneCallLat \o FormatG(coordinates.Lat) \o StrLon \o FormatG(coordinates.Lon)
        \o StrUnitsLangAppid \o c.APIKey

FormatGeoURL(c, location) ==
    c.BaseURL \o StrGeoDirectQ \o location \o StrLimitAppid \o c.APIKey

\* conditions, forecast, err := ParseWeatherResponse(data) and the returns after it
WeatherOfParser(URL, parsed) ==
    IF ~parsed.err.isNil
    THEN [request |-> URL, conditions |-> ZeroConditions, forecast |-> ZeroForecast,
          err |-> parsed.err]
    ELSE [request |-> URL, conditions |-> parsed.conditions, forecast |-> parsed.forecast,
          err |-> NilError]

\* coordinates, err := ParseGeoResponse(data) and the returns after it
CoordinatesOfParser(URL, parsed) ==
    IF ~parsed.err.isNil
    THEN [request |-> URL, coordinates |-> ZeroCoordinates, err |-> parsed.err]
    ELSE [request |-> URL, coordinates |-> parsed.coordinates, err |-> NilError]

\* GetWeather handing the body to the parser whatever the status is
GetWeatherAnyStatus(c, coordinates, reply) ==
    LET URL == FormatWeatherURL(c, coordinates)
    IN  IF ~reply.err.isNil
        THEN [request |-> URL, conditions |-> ZeroConditions, forecast |-> ZeroForecast,
              err |-> reply.err]
        ELSE IF ~reply.readErr.isNil
        THEN [request |-> URL, conditions |-> ZeroConditions, forecast |-> ZeroForecast,
              err |-> reply.readErr]
        ELSE WeatherOfParser(URL, ParseWeatherResponse(reply.body))

\* c.GetWeather(coordinates), where c.HTTPClient.Get(URL) gives reply: its error, or
\* the status and the body, and the error of reading the body
GetWeather(c, coordinates, reply) ==
    LET URL == FormatWeatherURL(c, coordinates)
    IN  IF ~reply.err.isNil
        THEN [request |-> URL, conditions |-> ZeroConditions, forecast |-> ZeroForecast,
              err |-> reply.err]
        ELSE IF reply.status.code # StatusOK
        THEN [request |-> URL, conditions |-> ZeroConditions, forecast |-> ZeroForecast,
              err |-> Errorf(MsgStatus, reply.status.text, "")]
        ELSE IF ~reply.readErr.isNil
        THEN [request |-> URL, conditions |-> ZeroConditions, forecast |-> ZeroForecast,
              err |-> reply.readErr]
        ELSE WeatherOfParser(URL, ParseWeatherResponse(reply.body))

\* c.GetCoordinates(location)
GetCoordinates(c, location, reply) ==
    LET URL == FormatGeoURL(c, location)
    IN  IF ~reply.err.isNil
        THEN [request |-> URL, coordinates |-> ZeroCoordinates, err |-> reply.err]
        ELSE IF reply.status.code # StatusOK
        THEN [request |-> URL, coordinates |-> ZeroCoordinates,
              err |-> Errorf(MsgStatus, reply.status.text, "")]
        ELSE IF ~reply.readErr.isNil
        THEN [request |-> URL, coordinates |-> ZeroCoordinates, err |-> reply.readErr]
        ELSE CoordinatesOfParser(URL, ParseGeoResponse(reply.body))

\* The errors of c.HTTPClient.Get: no connection, and the timeout of the client
TransportErrors ==
    {[isNil |-> FALSE, msg |-> "Get %q: %w", data |-> <<>>, cause |-> why] :
        why \in {"dial tcp: connection refused", "context deadline exceeded"}}

\* The error of io.ReadAll on a body that breaks off
ReadError == [isNil |-> FALSE, msg |-> "unexpected EOF", data |-> <<>>, cause |-> ""]

\* resp.StatusCode and resp.Status
Statuses ==
    {[code |-> 200, text |-> "200 OK"],
     [code |-> 204, text |-> "204 No Content"],
     [code |-> 401, text |-> "401 Unauthorized"],
     [code |-> 404, text |-> "404 Not Found"],
     [code |-> 500, text |-> "500 Internal Server Error"]}

\* What c.HTTPClient.Get can give for the bodies
Replies(bodies) ==
    {[err |-> e, status |-> [code |-> 0, text |-> ""], body |-> b, readErr |-> NilError] :
        e \in TransportErrors, b \in bodies}
    \cup {[err |-> NilError, status |-> s, body |-> b, readErr |-> r] :
            s \in Statuses, b \in bodies, r \in {NilError, ReadError}}

\* The three days of DailySamples in the order of their dates
ThreeDays == CHOOSE q \in [1..3 -> DailySamples] : q[1].DT < q[2].DT /\ q[2].DT < q[3].DT

\* The weather of the tests with n hourly slots
WeatherOfHours(n) ==
    [Current |-> CurrentWith(SliceOf(<<WeatherAt(1)>>)),
     Hourly  |-> SliceOf([i \in 1..n |-> HourlyAt([start |-> 1655478000, step |-> 3600,
                                                    temp |-> 3138, dtemp |-> -25,
                                                    pops |-> <<0, 20, 100>>], i)]),
     Daily   |-> SliceOf(ThreeDays)]

\* The weather of the tests with the first n of four days
WeatherOfDays(n) ==
    [WeatherOfHours(MinHourly) EXCEPT
        !.Daily = SliceOf(SubSeq(ThreeDays \o <<ThreeDays[1]>>, 1, n))]

\* Weather bodies: enough hourly slots and one too few, enough days, one too few and
\* one more, well-formed or not
WeatherBodies ==
    {[jsonErr |-> e, resp |-> r] :
        e \in {"", "UnmarshalTypeError"},
        r \in {WeatherOfHours(n) : n \in {MinHourly - 1, MinHourly}}
                 \cup {WeatherOfDays(n) : n \in {MinDaily - 1, MinDaily + 1}}}
        \cup {[jsonErr |-> "SyntaxError", resp |-> ZeroWeatherResponse]}

\* "Hamburg" and "London,UK"
LocationInputs ==
    {<<"H", "a", "m", "b", "u", "r", "g">>, <<"L", "o", "n", "d", "o", "n", ",", "U", "K">>}

KeyInputs == {<<"k", "1">>, <<"s", "e", "c", "r", "e", "t">>}

CoordinateInputs == GeoSamples \cup {ZeroCoordinates, [Lat |-> -3350, Lon |-> 15100]}

CallGetWeather ==
    /\ pc = "ready"
    /\ \E key \in KeyInputs, coordinates \in CoordinateInputs, reply \in Replies(WeatherBodies) :
        /\ call' = [fn |-> "GetWeather", c |-> NewClient(key), coordinates |-> coordinates,
                    reply |-> reply]
        /\ ret' = GetWeather(NewClient(key), coordinates, reply)
    /\ pc' = "returned"

CallGetCoordinates ==
    /\ pc = "ready"
    /\ \E key \in KeyInputs, location \in LocationInputs, reply \in Replies(GeoPayloads) :
        /\ call' = [fn |-> "GetCoordinates", c |-> NewClient(key), location |-> location,
                    reply |-> reply]
        /\ ret' = GetCoordinates(NewClient(key), location, reply)
    /\ pc' = "returned"

NextClient ==
    \/ CallGetWeather
    \/ CallGetCoordinates
    \/ Return

SpecClient == Init /\ [][NextClient]_vars

\* The same error value
SameError(a, b) ==
    /\ a.isNil = b.isNil
    /\ a.msg = b.msg
    /\ a.cause = b.cause
    /\ a.data = b.data

\* The call got no body: the transport failed, or the body broke off
TransportFailed(reply) == ~reply.err.isNil \/ ~reply.readErr.isNil

\* The outcome of GetWeather is the outcome p of the parser
WeatherOutcomeIs(p) ==
    /\ ret.conditions = p.conditions
    /\ ret.forecast = p.forecast
    /\ SameError(ret.err, p.err)

\* The outcome of GetCoordinates is the outcome p of the parser
GeoOutcomeIs(p) ==
    /\ ret.coordinates = p.coordinates
    /\ SameError(ret.err, p.err)

\* C16: GetWeather and GetCoordinates return an error and the zero values, never what
\* the parser makes of the body, when the transport fails or the status is not 200;
\* the error of the transport and the error of the parser are returned as they are;
\* on status 200 the outcome is the outcome of the parser on the body.
C16_ClientOutcome ==
    /\ Returned("GetWeather") =>
        /\ (TransportFailed(call.reply) \/ call.reply.status.code # 200) =>
              /\ ~ret.err.isNil
              /\ ret.conditions = ZeroConditions
              /\ ret.forecast = ZeroForecast
        /\ ~call.reply.err.isNil => SameError(ret.err, call.reply.err)
        /\ (~TransportFailed(call.reply) /\ call.reply.status.code = 200) =>
              WeatherOutcomeIs(ParseWeatherResponse(call.reply.body))
    /\ Returned("GetCoordinates") =>
        /\ (TransportFailed(call.reply) \/ call.reply.status.code # 200) =>
              /\ ~ret.err.isNil
              /\ ret.coordinates = ZeroCoordinates
        /\ ~call.reply.err.isNil => SameError(ret.err, call.reply.err)
        /\ (~TransportFailed(call.reply) /\ call.reply.status.code = 200) =>
              GeoOutcomeIs(ParseGeoResponse(call.reply.body))

\* C16 witness: GetWeather returned the error of the status 404 on a reply whose
\* body the parser takes without error.
C16_Witness ==
    /\ Returned("GetWeather")
    /\ call.reply.err.isNil
    /\ call.reply.status.code = 404
    /\ ParseWeatherResponse(call.reply.body).err.isNil
    /\ ret.err = Errorf(MsgStatus, "404 Not Found", "")
    /\ ret.forecast = ZeroForecast

---------------------------------------------------------------------------
(* PrintCurrentConditions, PrintMoon and PrintRain                         *)

\* ": "
StrColon ==
    <<":", " ">>

\* float64(s) * 3.6, in thousandths
KmPerHour(s) == s * 36

\* %.0f of a number of thousandths: the nearest integer, a tie to the even one
FormatF0Milli(x) ==
    LET a == IF x < 0 THEN -x ELSE x
        q == a \div 1000
        r == a % 1000
        n == IF r > 500 THEN q + 1
             ELSE IF r < 500 THEN q
             ELSE IF q % 2 = 0 THEN q ELSE q + 1
    IN  (IF x < 0 THEN <<"-">> ELSE <<>>) \o Itoa(n)

\* The binary exponent of a > 0 hundredths: the e with 2^e <= a / 100 < 2^(e + 1)
RECURSIVE Exponent(_)
Exponent(a) ==
    IF a >= 200 THEN Exponent(a \div 2) + 1
    ELSE IF a < 100 THEN Exponent(2 * a) - 1
    ELSE 0

\* How the float64 next to a / 100 lies to a / 100, for a = 10 * k + 5: 0 if it is
\* a / 100; 1 or 2 if it is below; 3 or 4 if it is above.  a / 100 is n / 20 with
\* n = a / 5, and its 53-bit mantissa is n * 2^(50 - e) / 5 cut to an integer.
MantissaRest(a) ==
    LET n    == a \div 5
        pow2 == <<1, 2, 4, 3>>[((50 - Exponent(a)) % 4) + 1]
    IN  ((n % 5) * pow2) % 5

\* %.1f of a number of hundredths: the decimal next to the float64, a tie to the
\* even digit
FormatF1(x) ==
    LET a  == IF x < 0 THEN -x ELSE x
        q  == a \div 10
        r  == a % 10
        up == IF r > 5 THEN TRUE
              ELSE IF r < 5 THEN FALSE
              ELSE IF MantissaRest(a) = 0 THEN q % 2 = 1
              ELSE MantissaRest(a) > 2
        n  == IF up THEN q + 1 ELSE q
    IN  (IF x < 0 THEN <<"-">> ELSE <<>>) \o Itoa(n \div 10) \o <<".", Digit(n % 10)>>

\* PrintCurrentConditions.  f.Daily[0] panics on a forecast without daily entries,
\* after the first four lines.
PrintCurrentConditions(c, f) ==
    LET StrAktuellesWetter == <<"A", "k", "t", "u", "e", "l", "l", "e", "s", " ", "W",
            "e", "t", "t", "e", "r", " ", "v", "o", "m", " ">>
        StrSonne == <<"S", "o", "n", "n", "e", ":", " ">>
        StrSlash == <<" ", "/", " ">>
        StrMond == <<"M", "o", "n", "d", ":", " ">>
        StrBeschreibung == <<"B", "e", "s", "c", "h", "r", "e", "i", "b", "u", "n", "g",
            ":", " ">>
        StrTemperatur == <<"T", "e", "m", "p", "e", "r", "a", "t", "u", "r", ":", " ">>
        StrGefuehlt == <<" ", "°", "C", ",", " ", "g", "e", "f", "ü", "h", "l", "t",
            " ">>
        StrGradC == <<" ", "°", "C">>
        StrTaupunkt == <<"T", "a", "u", "p", "u", "n", "k", "t", ":", " ">>
        StrLuftdruck == <<"L", "u", "f", "t", "d", "r", "u", "c", "k", ":", " ">>
        StrHPa == <<" ", "h", "P", "a">>
        StrLuftfeuchtigkeit == <<"L", "u", "f", "t", "f", "e", "u", "c", "h", "t", "i",
            "g", "k", "e", "i", "t", ":", " ">>
        StrProzent == <<" ", "%">>
        StrWind == <<"W", "i", "n", "d", ":", " ">>
        StrKmhAus == <<" ", "k", "m", "/", "h", " ", "a", "u", "s", " ">>
        StrInBoeen == <<",", " ", "i", "n", " ", "B", "ö", "e", "n", " ">>
        StrKmh == <<" ", "k", "m", "/", "h">>
        head == << <<>>,
                   StrAktuellesWetter \o c.Timestamp,
                   StrRule,
                   StrSonne \o c.Sunrise \o StrSlash \o c.Sunset >>
    IN  IF GoLen(f.Daily) < 1 THEN [panic |-> TRUE, stdout |-> head]
        ELSE LET today == f.Daily.elems[1]
             IN  [panic  |-> FALSE,
                  stdout |->
                      head
                      \o << StrMond \o today.Moonrise \o StrSlash \o today.Moonset
                                \o <<",", " ">> \o Description(today.Moonphase),
                            StrBeschreibung \o c.Summary,
                            StrTemperatur \o FormatF1(c.Temperature) \o StrGefuehlt
                                \o FormatF1(c.FeelsLike) \o StrGradC,
                            StrTaupunkt \o FormatF1(c.DewPoint) \o StrGradC,
                            StrLuftdruck \o Itoa(c.Pressure) \o StrHPa,
                            StrLuftfeuchtigkeit \o Itoa(c.Humidity) \o StrProzent,
                            StrWind \o FormatF0Milli(KmPerHour(c.WindSpeed)) \o StrKmhAus
                                \o Direction(c.WindDirection) \o StrInBoeen
                                \o FormatF0Milli(KmPerHour(c.WindGust)) \o StrKmh,
                            <<>> >>
                      \o (IF GoLen(today.Alerts) > 0 THEN AlertLines(today.Alerts.elems, 1)
                          ELSE <<>>)]

\* for _, day := range f.Daily { ... } of PrintMoon
RECURSIVE MoonLines(_, _, _)
MoonLines(daily, i, lastDescription) ==
    IF i > Len(daily) THEN <<>>
    ELSE LET day                 == daily[i]
             currentDescritption == Description(day.Moonphase)
             line                == day.Day \o StrColon \o day.Moonrise \o StrDash \o day.Moonset
         IN  <<IF lastDescription # currentDescritption
               THEN line \o <<",", " ">> \o currentDescritption
               ELSE line>> \o MoonLines(daily, i + 1, currentDescritption)

\* PrintMoon: no index, so no panic
PrintMoon(f) ==
    LET StrMondHeading == <<"M", "o", "n", "d", "a", "u", "f", "-", "/", "u", "n", "t",
            "e", "r", "g", "a", "n", "g", ",", " ", "M", "o", "n", "d", "p", "h", "a",
            "s", "e">>
    IN  [panic  |-> FALSE,
         stdout |-> << <<>>, StrMondHeading, StrRule >> \o MoonLines(f.Daily.elems, 1, <<>>)
                        \o << <<>> >>]

\* The lines of PrintRain for the days from offset on, up to the first index that
\* is out of range
RECURSIVE RainLines(_, _)
RainLines(f, offset) ==
    IF offset > 2 \/ offset >= GoLen(f.Daily) THEN <<>>
    ELSE <<f.Daily.elems[offset + 1].Day \o StrColon \o GetRainyPeriods(f, offset).result>>
             \o RainLines(f, offset + 1)

\* PrintRain ... perception of rain and snow for today and next days.  f.Daily[0] and
\* f.Daily[2] panic on a forecast with fewer than 3 daily entries, after the first
\* line.
PrintRain(f) ==
    LET StrNiederschlagVom == <<"N", "i", "e", "d", "e", "r", "s", "c", "h", "l", "a",
            "g", " ", "v", "o", "m", " ">>
    IN  IF GoLen(f.Daily) < 3 THEN [panic |-> TRUE, stdout |-> <<<<>>>>]
        ELSE [panic  |-> FALSE,
              stdout |-> << <<>>,
                            StrNiederschlagVom \o f.Daily.elems[1].Day \o StrDash
                                \o f.Daily.elems[3].Day,
                            StrRule >>
                         \o RainLines(f, 0) \o << <<>> >>]

---------------------------------------------------------------------------
(* The lookups: RunCLI and Get, a step for every request and every reply   *)

\* "current"
FunctionCurrent ==
    <<"c", "u", "r", "r", "e", "n", "t">>

\* "today"
FunctionToday ==
    <<"t", "o", "d", "a", "y">>

\* "tomorrow"
FunctionTomorrow ==
    <<"t", "o", "m", "o", "r", "r", "o", "w">>

\* "aftertomorrow"
FunctionAfterTomorrow ==
    <<"a", "f", "t", "e", "r", "t", "o", "m", "o", "r", "r", "o", "w">>

\* "moon"
FunctionMoon ==
    <<"m", "o", "o", "n">>

\* "rain"
FunctionRain ==
    <<"r", "a", "i", "n">>

\* "alert"
FunctionAlert ==
    <<"a", "l", "e", "r", "t">>

validFunction ==
    {FunctionCurrent, FunctionToday, FunctionTomorrow, FunctionAfterTomorrow, FunctionMoon,
     FunctionRain, FunctionAlert}

\* strings.Join(args[2:], "+")
GetLocation(args) == Join(SubSeq(args, 3, Len(args)), <<"+">>)

\* What a lookup has done so far: the requests it issued and the replies it got, the
\* lines on stderr and on stdout, the values it holds, the function it dispatched
\* to, whether that panicked, and the status it ended the process with (-1: it did
\* not)
NoProgress ==
    [requests |-> <<>>, replies |-> <<>>, stderr |-> <<>>, stdout |-> <<>>,
     coordinates |-> ZeroCoordinates, conditions |-> ZeroConditions, forecast |-> ZeroForecast,
     err |-> NilError, dispatched |-> <<>>, panic |-> FALSE, exit |-> -1]

\* fmt.Fprintln(os.Stderr, ...); os.Exit(1)
PrintAndExit(progress, line) ==
    [progress EXCEPT !.stderr = Append(@, line), !.exit = 1]

\* The geocode step never taken as failed
GeocodeFailedNever(g) == FALSE

\* coordinates, err := c.GetCoordinates(location); if err != nil
GeocodeFailed(g) == ~g.err.isNil

\* conditions, forecast, err := c.GetWeather(coordinates); if err != nil
WeatherFailed(w) == ~w.err.isNil

\* The client of the lookup, and its location
LookupClient == NewClient(call.key)

LookupLocation == IF call.fn = "Get" THEN call.location ELSE GetLocation(call.args)

\* Get(location, key) up to the geocode request
StartGet ==
    /\ pc = "ready"
    /\ \E location \in LocationInputs, key \in KeyInputs :
        /\ call' = [fn |-> "Get", location |-> location, key |-> key]
        /\ ret' = [NoProgress EXCEPT
                      !.requests = <<FormatGeoURL(NewClient(key), location)>>]
    /\ pc' = "geocoding"

\* The program name, a word that is no function, and the words of the locations
ArgsInputs ==
    LET prog    == <<"w", "e", "a", "t", "h", "e", "r">>
        bogus   == <<"n", "o", "w">>
        hamburg == <<"H", "a", "m", "b", "u", "r", "g">>
    IN  {<<prog>>, <<prog, FunctionCurrent>>, <<prog, bogus, hamburg>>,
         <<prog, FunctionAlert, <<"N", "e", "w">>, <<"Y", "o", "r", "k">>>>}
            \cup {<<prog, function, hamburg>> : function \in validFunction}

\* RunCLI() up to the geocode request: OPENWEATHERMAP_API_KEY is key, os.Args is args
StartRunCLI ==
    /\ pc = "ready"
    /\ \E key \in KeyInputs \cup {<<>>}, args \in ArgsInputs :
        /\ call' = [fn |-> "RunCLI", key |-> key, args |-> args]
        /\ IF key = <<>>
           THEN /\ ret' = PrintAndExit(NoProgress, [line |-> "key", err |-> NilError])
                /\ pc' = "exited"
           ELSE IF Len(args) < 3 \/ args[2] \notin validFunction
           THEN /\ ret' = PrintAndExit(NoProgress, [line |-> "usage", err |-> NilError])
                /\ pc' = "exited"
           ELSE /\ ret' = [NoProgress EXCEPT
                              !.requests = <<FormatGeoURL(NewClient(key), GetLocation(args))>>]
                /\ pc' = "geocoding"

\* Geocode bodies: no coordinates, one set and two sets, well-formed or not
GeoBodies ==
    {[jsonErr |-> e, resp |-> r] :
        e \in {"", "UnmarshalTypeError"},
        r \in {EmptySlice, SliceOf(<<GeoAt(1)>>), SliceOf(<<GeoAt(2), GeoAt(1)>>)}}
        \cup {[jsonErr |-> "SyntaxError", resp |-> NilSlice]}

\* The lookup after c.GetCoordinates returned g: RunCLI and Get both print the error
\* and exit, or go on to the weather request
AfterGeocode(c, progress, g) ==
    IF GeocodeFailed(g)
    THEN PrintAndExit(progress, [line |-> "error", err |-> g.err])
    ELSE [progress EXCEPT
             !.coordinates = g.coordinates,
             !.requests = Append(@, FormatWeatherURL(c, g.coordinates))]

\* switch function { ... } of RunCLI: what the function writes, and whether it
\* panics.  The error PrintForecast returns is dropped.
Dispatch(function, conditions, forecast) ==
    CASE function = FunctionCurrent -> PrintCurrentConditions(conditions, forecast)
      [] function = FunctionToday -> PrintForecast(forecast, 0)
      [] function = FunctionTomorrow -> PrintForecast(forecast, 1)
      [] function = FunctionAfterTomorrow -> PrintForecast(forecast, 2)
      [] function = FunctionMoon -> PrintMoon(forecast)
      [] function = FunctionRain -> PrintRain(forecast)
      [] function = FunctionAlert -> PrintAlerts(forecast)

\* The lookup after the function it dispatched to has written out
Dispatched(progress, function, out) ==
    [progress EXCEPT !.dispatched = function, !.stdout = out.stdout, !.panic = out.panic]

\* The lookup after c.GetWeather returned w: Get returns what it got; RunCLI prints
\* the error and exits, or dispatches to the function
AfterWeather(lookup, progress, w) ==
    IF WeatherFailed(w)
    THEN IF lookup.fn = "Get"
         THEN [progress EXCEPT !.err = w.err]
         ELSE PrintAndExit(progress, [line |-> "error", err |-> w.err])
    ELSE IF lookup.fn = "Get"
    THEN [progress EXCEPT !.conditions = w.conditions, !.forecast = w.forecast]
    ELSE Dispatched([progress EXCEPT !.conditions = w.conditions, !.forecast = w.forecast],
                    lookup.args[2], Dispatch(lookup.args[2], w.conditions, w.forecast))

\* The reply to the geocode request comes: GetCoordinates returns
GeocodeReply ==
    /\ pc = "geocoding"
    /\ \E reply \in Replies(GeoBodies) :
        ret' = AfterGeocode(LookupClient, [ret EXCEPT !.replies = Append(@, reply)],
                            GetCoordinates(LookupClient, LookupLocation, reply))
    /\ pc' = IF ret'.exit = 1 THEN "exited" ELSE "fetching"
    /\ UNCHANGED call

\* The reply to the weather request comes: GetWeather returns
WeatherReply ==
    /\ pc = "fetching"
    /\ \E reply \in Replies(WeatherBodies) :
        ret' = AfterWeather(call, [ret EXCEPT !.replies = Append(@, reply)],
                            GetWeather(LookupClient, ret.coordinates, reply))
    /\ pc' = IF ret'.exit = 1 THEN "exited" ELSE IF ret'.panic THEN "panicked" ELSE "returned"
    /\ UNCHANGED call

\* The process is started again after os.Exit
Rerun ==
    /\ pc = "exited"
    /\ pc' = "ready"
    /\ call' = NoCall
    /\ ret' = NoCall

NextLookup ==
    \/ StartGet
    \/ StartRunCLI
    \/ GeocodeReply
    \/ WeatherReply
    \/ Return
    \/ Rerun

SpecLookup == Init /\ [][NextLookup]_vars

\* A lookup is under way or over
InLookup == call.fn \in {"Get", "RunCLI"}

\* The reply is one that a request fails on
FailedReply(reply, Parse(_)) ==
    \/ ~reply.err.isNil
    \/ reply.status.code # 200
    \/ ~reply.readErr.isNil
    \/ ~Parse(reply.body).err.isNil

\* C17: in RunCLI and in Get the geocode request is issued first, and the weather
\* request only after the geocode step returned coordinates without error, with
\* those coordinates; a lookup that succeeds has issued one geocode request and then
\* one weather request; no request is issued after a failure, and none twice.
C17_RequestOrder ==
    InLookup =>
        /\ Len(ret.requests) <= 2
        /\ Len(ret.replies) <= Len(ret.requests)
        /\ Len(ret.requests) >= 1 =>
              ret.requests[1] = FormatGeoURL(LookupClient, LookupLocation)
        /\ Len(ret.requests) = 2 =>
              /\ Len(ret.replies) >= 1
              /\ ~FailedReply(ret.replies[1], ParseGeoResponse)
              /\ ret.requests[2] =
                    FormatWeatherURL(LookupClient, ParseGeoResponse(ret.replies[1].body).coordinates)
        /\ (Len(ret.replies) >= 1 /\ FailedReply(ret.replies[1], ParseGeoResponse)) =>
              Len(ret.requests) = 1
        /\ (pc = "returned" /\ ret.err.isNil) =>
              /\ Len(ret.requests) = 2
              /\ Len(ret.replies) = 2
              /\ ~FailedReply(ret.replies[2], ParseWeatherResponse)

\* C17 witness: RunCLI dispatched to the alerts after a geocode request and a weather
\* request for the coordinates of the geocode reply.
C17_Witness ==
    /\ call.fn = "RunCLI"
    /\ pc = "returned"
    /\ ret.dispatched = FunctionAlert
    /\ Len(ret.requests) = 2
    /\ ret.requests[2] = FormatWeatherURL(LookupClient, ret.coordinates)
    /\ ret.coordinates # ZeroCoordinates

\* C18: in Get a failure of the geocode lookup or of the weather lookup ends the
\* lookup and is returned to the caller as the error, unchanged; Get never ends the
\* process and never prints.
C18_GetReturnsErrors ==
    call.fn = "Get" =>
        /\ pc # "exited"
        /\ ret.exit = -1
        /\ ret.stderr = <<>>
        /\ (Len(ret.replies) >= 1 /\ FailedReply(ret.replies[1], ParseGeoResponse)) =>
              /\ pc = "returned"
              /\ SameError(ret.err,
                           GetCoordinates(LookupClient, LookupLocation, ret.replies[1]).err)
        /\ (Len(ret.replies) = 2 /\ FailedReply(ret.replies[2], ParseWeatherResponse)) =>
              /\ pc = "returned"
              /\ SameError(ret.err,
                           GetWeather(LookupClient, ret.coordinates, ret.replies[2]).err)

\* The forecast of the call with the hourly entries of the selected day only
SelectedOnly == [call.f EXCEPT !.Hourly = SliceOf(SelectedDay(call.f, call.offset))]

\* C19: the result of GetRainyPeriods depends on the hourly entries of the selected
\* day only: an entry of another day, rainy or dry, wherever it stands, neither
\* starts nor extends nor ends a run, so rainy entries of the day with only entries
\* of other days between them are one run, and the result is the result on the
\* hourly sequence without the entries of other days.
C19_OtherDaysIgnored ==
    Returned("GetRainyPeriods") =>
        /\ ret.result = GetRainyPeriods(SelectedOnly, call.offset).result
        /\ (Len(CallRuns) = 1 /\ CallRuns[1].count = Len(SelectedDay(call.f, call.offset))) =>
              \E form \in AnyForm(CallRuns[1]) : ret.result = Sentence(<<form>>)

\* C19 witness: a dry entry of the other day stood between two rainy entries of the
\* selected day, and the result was the one range.
C19_Witness ==
    /\ Returned("GetRainyPeriods")
    /\ Len(call.f.Hourly.elems) = 3
    /\ call.f.Hourly.elems[2].Day # call.f.Daily.elems[call.offset + 1].Day
    /\ call.f.Hourly.elems[2].RainChance = 0
    /\ Len(CallRuns) = 1
    /\ CallRuns[1].count = 2
    /\ CallRuns[1].first # CallRuns[1].last
    /\ ret.result = StrEsRegnet \o RangeForm(CallRuns[1]) \o StrDot

\* s ends with suffix
HasSuffix(s, suffix) ==
    /\ Len(s) >= Len(suffix)
    /\ SubSeq(s, Len(s) - Len(suffix) + 1, Len(s)) = suffix

\* The forms that name the first and the last hour of the run
FormsOfHours(run) ==
    IF run.first = run.last THEN {SingleForm(run)}
    ELSE {RangeForm(run)} \cup (IF RangeForm(run) = StrVonNullBis23 THEN {StrGanzerTag} ELSE {})

\* The number of descriptions in the result: one more than it has commas
Descriptions(result) ==
    IF result = StrEsRegnetNicht THEN 0
    ELSE Cardinality({i \in 1..Len(result) : result[i] = ","}) + 1

\* C20: when the last entry of the selected day is rainy, the run that is still open
\* at the end of the scan is the last description of the result, from the first
\* hour of that run to the last rainy hour; the result has a description for every
\* run.
C20_HangingRunEmitted ==
    Returned("GetRainyPeriods") =>
        /\ Descriptions(ret.result) = Len(CallRuns)
        /\ (Len(CallRuns) > 0 /\ CallRuns[Len(CallRuns)].open) =>
              \E form \in FormsOfHours(CallRuns[Len(CallRuns)]) :
                  HasSuffix(ret.result,
                            (IF Len(CallRuns) = 1 THEN StrEsRegnet ELSE StrCommaSpace)
                                \o form \o StrDot)

\* C20 witness: after a closed run the scan ended in a run of two entries of
\* different hours, and the result ended with its range.
C20_Witness ==
    /\ Returned("GetRainyPeriods")
    /\ Len(CallRuns) = 2
    /\ CallRuns[2].open
    /\ CallRuns[2].count = 2
    /\ CallRuns[2].first # CallRuns[2].last
    /\ HasSuffix(ret.result, StrCommaSpace \o RangeForm(CallRuns[2]) \o StrDot)

\* C21: the forecast that ParseWeatherResponse, and so GetWeather, returns without
\* an error has at least 3 daily and at least 12 hourly entries, so the function
\* RunCLI dispatches to, and every GetRainyPeriods it calls, reads only indices of
\* Daily that exist: no lookup panics on an index out of range.
C21_NoIndexOutOfRange ==
    InLookup =>
        /\ pc # "panicked"
        /\ ~ret.panic
        /\ (Len(ret.replies) = 2 /\ ~FailedReply(ret.replies[2], ParseWeatherResponse)) =>
              /\ ret.forecast = ParseWeatherResponse(ret.replies[2].body).forecast
              /\ GoLen(ret.forecast.Daily) >= 3
              /\ GoLen(ret.forecast.Hourly) >= 12
              /\ call.fn = "RunCLI" =>
                    /\ ret.dispatched = call.args[2]
                    /\ Len(ret.stdout) >= 5

\* C21 witness: RunCLI dispatched to PrintRain on a forecast of 3 days, and it wrote
\* its 7 lines.
C21_Witness ==
    /\ call.fn = "RunCLI"
    /\ pc = "returned"
    /\ ret.dispatched = FunctionRain
    /\ GoLen(ret.forecast.Daily) = 3
    /\ Len(ret.stdout) = 7
    /\ ret.stdout[6] = ret.forecast.Daily.elems[3].Day \o StrColon
                           \o GetRainyPeriods(ret.forecast, 2).result

\* C22: PrintForecast guards only 0 <= offset <= 2 and GetRainyPeriods guards
\* nothing: PrintForecast(f, k) with k in {0, 1, 2} and GetRainyPeriods(f, k) with
\* any k, on a forecast with fewer than k + 1 daily entries, panic on an index out
\* of range and return no error.
C22_UnguardedIndex ==
    /\ (call.fn = "PrintForecast" /\ call.offset \in {0, 1, 2}
            /\ Len(call.f.Daily.elems) < call.offset + 1) =>
          /\ pc = "panicked"
          /\ ret.panic
          /\ ret.err.isNil
    /\ (call.fn = "GetRainyPeriods" /\ Len(call.f.Daily.elems) < call.offset + 1) =>
          /\ pc = "panicked"
          /\ ret.panic

\* C22 witness: PrintForecast(Forecast{}, 0) panicked after the first line.
C22_Witness ==
    /\ call.fn = "PrintForecast"
    /\ call.f = ZeroForecast
    /\ call.offset = 0
    /\ pc = "panicked"
    /\ ret.stdout = <<<<>>>>

---------------------------------------------------------------------------
(* The scan of GetRainyPeriods, a step for every hourly entry              *)

\* The longest hourly forecast that is scanned step by step
MaxScan == 3

ScanForecasts ==
    {[Hourly |-> SliceOf(h), Daily |-> FDaily(Cardinality(RainDays), {})] :
        h \in SeqsUpTo(RainSlots, MaxScan)}

\* The state of the loop after i entries
Scanned(i, st) ==
    [i |-> i, values |-> st.values, itsRaining |-> st.itsRaining, previousSlot |-> st.previousSlot]

\* GetRainyPeriods(f, offset) up to the loop
StartScan ==
    /\ pc = "ready"
    /\ \E f \in ScanForecasts, offset \in {k - 1 : k \in RainDays} :
        call' = [fn |-> "GetRainyPeriods", f |-> f, offset |-> offset]
    /\ ret' = Scanned(0, [values |-> <<>>, itsRaining |-> <<>>, previousSlot |-> <<>>])
    /\ pc' = "scanning"

\* One iteration of the loop
ScanStep ==
    /\ pc = "scanning"
    /\ ret.i < Len(call.f.Hourly.elems)
    /\ ret' = Scanned(ret.i + 1,
                      ScanSlot(ret, call.f.Hourly.elems[ret.i + 1],
                               call.f.Daily.elems[call.offset + 1].Day))
    /\ UNCHANGED <<pc, call>>

\* result := ...; return result
RainResult(values) ==
    IF Len(values) > 0
    THEN StrEsRegnet \o Join(values, StrCommaSpace) \o StrDot
    ELSE StrEsRegnetNicht

\* The loop is over: the hanging period, and the result
FinishScan ==
    /\ pc = "scanning"
    /\ ret.i = Len(call.f.Hourly.elems)
    /\ ret' = [panic |-> FALSE, result |-> RainResult(FlushHanging(ret))]
    /\ pc' = "returned"
    /\ UNCHANGED call

NextScan ==
    \/ StartScan
    \/ ScanStep
    \/ FinishScan
    \/ Return

SpecScan == Init /\ [][NextScan]_vars

\* The maximal rainy runs of the selected day among the entries scanned so far
ScannedRuns ==
    RunsFrom(SelectedDay([call.f EXCEPT !.Hourly = SliceOf(SubSeq(call.f.Hourly.elems, 1, ret.i))],
                         call.offset), 1)

\* The number of the runs that a dry entry of the day has closed
ClosedRuns(runs) == Cardinality({k \in 1..Len(runs) : ~runs[k].open})

\* C23: in the loop of GetRainyPeriods, after every entry, itsRaining is empty
\* exactly if previousSlot is empty; when they are not empty, itsRaining is the hour
\* of the first entry and previousSlot the hour of the last entry so far of the run
\* that is open; and values has one description for every run that a dry entry of
\* the day has closed.
C23_ScanInvariant ==
    pc = "scanning" =>
        /\ ret.itsRaining = <<>> <=> ret.previousSlot = <<>>
        /\ ret.itsRaining # <<>> <=>
              (Len(ScannedRuns) > 0 /\ ScannedRuns[Len(ScannedRuns)].open)
        /\ ret.itsRaining # <<>> =>
              /\ ret.itsRaining = ScannedRuns[Len(ScannedRuns)].first
              /\ ret.previousSlot = ScannedRuns[Len(ScannedRuns)].last
        /\ Len(ret.values) = ClosedRuns(ScannedRuns)

\* C23 witness: after three entries one run is closed and the next is open, from
\* its first hour on.
C23_Witness ==
    /\ pc = "scanning"
    /\ ret.i = 3
    /\ Len(ret.values) = 1
    /\ ret.itsRaining # <<>>
    /\ ret.itsRaining = call.f.Hourly.elems[3].Hour
    /\ ret.previousSlot = ret.itsRaining

====
